---- MODULE Spec2Model ----
(***************************************************************************)
(* Verification model of uws-reverse-proxy's request-forwarding engine:    *)
(* the HTTP/1.1 response Parser, the Pipeline sending strategy, the        *)
(* Sender, the Connection and the Client connection pool.                  *)
(*                                                                         *)
(* Every component is a record; every method or event handler of the       *)
(* source is an operator from records to records, so that the synchronous  *)
(* call chains of the code (socket event -> parser -> pipeline -> reply)   *)
(* are single atomic actions.  Eight specifications share the module:      *)
(*   SpecParser  Parser.feed on byte streams cut into arbitrary slices     *)
(*   SpecSlices  two Parsers fed the same bytes in different slicings      *)
(*   SpecSender  Sender._stream / _trySendChunk for one request body       *)
(*   SpecPipe    one Connection with its Pipeline and reply-handles        *)
(*   SpecDuplex  the same Connection when the requests carry a body        *)
(*   SpecClient  the Client pool over several Connections                  *)
(*   SpecKeys    the Client pool called for two host:port keys             *)
(*   SpecProxy   UWSProxy forwarding one request and answering its errors  *)
(***************************************************************************)
EXTENDS Integers, Sequences, FiniteSets, TLC

VARIABLES
    wire,       \* SpecParser: the responses the backend sends, as descriptors
    stream,     \* SpecParser: the bytes of those responses, end to end
    fed,        \* SpecParser: number of bytes of stream already fed
    parser,     \* SpecParser: the Parser object (fields + emitted events)
    ref,        \* SpecSlices: a second Parser, fed the same bytes one by one
    refFed,     \* SpecSlices: number of bytes of stream fed to ref
    sRequest,   \* SpecSender: the request handed to Sender._send
    sBody,      \* SpecSender: the edge request-body source (request.response)
    sContext,   \* SpecSender: the context object of Sender._stream
    sSocket,    \* SpecSender: the backend socket
    sPhase,     \* SpecSender: how far _send / _stream have got
    pipe,       \* SpecPipe: the Pipeline of the connection
    replies,    \* SpecPipe: the edge reply-handle of each request
    cbLog,      \* SpecPipe: the calls of each request's completion callback
    termLog,    \* SpecPipe: the terminateRequest calls that removed an entry
    conn,       \* SpecPipe: the Connection and its socket
    traffic,    \* SpecPipe: requests and responses between proxy and backend
    client,     \* SpecClient: the Client, its two maps of connections
    conns,      \* SpecClient: the connections the Client has created
    calls,      \* SpecClient: the calls of Client.request and their outcome
    proxy       \* SpecProxy: the UWSProxy with one request and its reply-handle

parserVars == <<wire, stream, fed, parser, ref, refFed>>
senderVars == <<sRequest, sBody, sContext, sSocket, sPhase>>
pipeVars == <<pipe, replies, cbLog, termLog, conn, traffic>>
clientVars == <<client, conns, calls>>
proxyVars == <<proxy>>
notParserVars == <<senderVars, pipeVars, clientVars, proxyVars>>
notSenderVars == <<parserVars, pipeVars, clientVars, proxyVars>>
notPipeVars == <<parserVars, senderVars, clientVars, proxyVars>>
notClientVars == <<parserVars, senderVars, pipeVars, proxyVars>>
notProxyVars == <<parserVars, senderVars, pipeVars, clientVars>>

(***************************************************************************)
(* Bytes are character codes.                                              *)
(***************************************************************************)
CHAR_COLON == 58
CHAR_SPACE == 32
CHAR_NEW_LINE == 10
CHAR_SEMICOLON == 59
CHAR_CARRIAGE_RETURN == 13

\* JavaScript's NaN and undefined, as values outside the naturals.
NaN == 0 - 1000001
Undefined == 0 - 1000002

EMPTY_BUFFER == <<>>

\* "content-length" and "transfer-encoding" as character codes
HEADER_CONTENT_LENGTH == <<99,111,110,116,101,110,116,45,108,101,110,103,116,104>>
HEADER_TRANSFER_ENCODING == <<116,114,97,110,115,102,101,114,45,101,110,99,111,100,105,110,103>>
\* "chunked"
STR_CHUNKED == <<99,104,117,110,107,101,100>>

Min(a, b) == IF a <= b THEN a ELSE b

(***************************************************************************)
(* JavaScript string and number primitives used by the parser.             *)
(***************************************************************************)
IsDigit(c) == c >= 48 /\ c <= 57
IsSpaceChar(c) == c \in {32, 9, 10, 13}

\* value of a character as a digit of the given radix, or NaN
DigitValue(c, radix) ==
    IF IsDigit(c) THEN c - 48
    ELSE IF radix = 16 /\ c >= 97 /\ c <= 102 THEN c - 87
    ELSE IF radix = 16 /\ c >= 65 /\ c <= 70 THEN c - 55
    ELSE NaN

\* String.prototype.toLowerCase
ToLowerChar(c) == IF c >= 65 /\ c <= 90 THEN c + 32 ELSE c
ToLowerCase(s) == [k \in 1..Len(s) |-> ToLowerChar(s[k])]

\* String.prototype.indexOf(needle) !== -1
Contains(s, needle) ==
    \E k \in 1..(Len(s) - Len(needle) + 1) :
        SubSeq(s, k, k + Len(needle) - 1) = needle

RECURSIVE SkipSpaces(_)
SkipSpaces(s) ==
    IF Len(s) > 0 /\ IsSpaceChar(s[1]) THEN SkipSpaces(Tail(s)) ELSE s

\* the value of the longest prefix of s made of digits of the radix
RECURSIVE DigitsPrefix(_, _, _, _)
DigitsPrefix(s, radix, acc, seen) ==
    IF Len(s) > 0 /\ DigitValue(s[1], radix) # NaN
    THEN DigitsPrefix(Tail(s), radix, acc * radix + DigitValue(s[1], radix), TRUE)
    ELSE IF seen THEN acc ELSE NaN

\* Number.parseInt(s) and Number.parseInt(s, 16): leading white space is
\* skipped, a sign and (hexadecimal) a 0x prefix are accepted, parsing stops
\* at the first character that is not a digit; NaN when there is no digit.
ParseIntUnsigned(s, radix) ==
    IF Len(s) >= 2 /\ s[1] = 48 /\ s[2] \in {120, 88}
    THEN DigitsPrefix(SubSeq(s, 3, Len(s)), 16, 0, FALSE)
    ELSE DigitsPrefix(s, radix, 0, FALSE)

ParseInt(str, radix) ==
    LET s == SkipSpaces(str) IN
    IF Len(s) > 0 /\ s[1] = 45
    THEN LET v == ParseIntUnsigned(Tail(s), radix) IN IF v = NaN THEN NaN ELSE 0 - v
    ELSE IF Len(s) > 0 /\ s[1] = 43 THEN ParseIntUnsigned(Tail(s), radix)
    ELSE ParseIntUnsigned(s, radix)

\* Number(s) for the status code: the whole string must be a decimal
\* literal; the empty string is 0.
RECURSIVE AllDigitsValue(_, _)
AllDigitsValue(s, acc) ==
    IF Len(s) = 0 THEN acc
    ELSE IF IsDigit(s[1]) THEN AllDigitsValue(Tail(s), acc * 10 + (s[1] - 48))
    ELSE NaN

ToNumber(s) == AllDigitsValue(s, 0)

\* a < b in JavaScript: false when either side is NaN
JsLess(a, b) == a # NaN /\ b # NaN /\ a < b

(***************************************************************************)
(* The headers object: a function from names to values.  A value is the    *)
(* string read from the wire, [s |-> chars], or, for content-length after  *)
(* the end of the header block, the parsed number, [n |-> int].            *)
(***************************************************************************)
NoHeaders == <<>>

HasHeader(h, name) == \E k \in 1..Len(h) : h[k].name = name

HeaderValue(h, name) ==
    LET k == CHOOSE k \in 1..Len(h) : h[k].name = name IN h[k].value

\* h[name] = value: replaces in place, or adds the key at the end
SetHeader(h, name, value) ==
    IF HasHeader(h, name)
    THEN [k \in 1..Len(h) |-> IF h[k].name = name
                              THEN [name |-> name, value |-> value] ELSE h[k]]
    ELSE Append(h, [name |-> name, value |-> value])

\* delete h[name]; and a delete that leaves the header in place
DeleteHeader_Mutant(h, name) == h
DeleteHeader(h, name) == SelectSeq(h, LAMBDA e : e.name # name)

(***************************************************************************)
(* Parser (src/http/1.1/Parser.js).  The record holds the fields of the    *)
(* object; out is the sequence of events emitted so far.                   *)
(***************************************************************************)
BODY_READ_MODE == [UNTIL_CLOSE |-> "UNTIL_CLOSE", FIXED |-> "FIXED", CHUNKED |-> "CHUNKED"]

CompletedNothing ==
    [version |-> FALSE, statusCode |-> FALSE, statusMessage |-> FALSE,
     headers |-> FALSE, body |-> FALSE,
     chunkHeader |-> FALSE, chunkBody |-> FALSE, chunkExtension |-> FALSE]

\* Parser._reset: every field but the listeners (and so the emitted events)
ParserReset(p) ==
    [p EXCEPT !.headers = NoHeaders,
              !.completed = CompletedNothing,
              !.statusCode = 0,
              !.statusMessage = <<>>,
              !.version = <<>>,
              !.currentSymbol = <<>>,
              !.currentHeaderName = <<>>,
              !.encounteredEndOfLine = 0,
              !.bodyLength = Undefined,
              !.bodyChunked = FALSE,
              !.bodyRead = 0,
              !.bodyChunkRead = 0,
              !.bodyChunkSize = Undefined,
              !.prevByte = Undefined]

\* new Parser(): the field initialisers
NewParser ==
    [headers |-> NoHeaders, completed |-> CompletedNothing,
     statusCode |-> 0, statusMessage |-> <<>>, version |-> <<>>,
     currentSymbol |-> <<>>, currentHeaderName |-> <<>>,
     encounteredEndOfLine |-> 0, prevByte |-> Undefined,
     bodyChunked |-> FALSE, bodyLength |-> Undefined, bodyRead |-> 0,
     bodyChunkRead |-> 0, bodyChunkSize |-> Undefined,
     out |-> <<>>]

\* Parser._resetChunk
ParserResetChunk(p) ==
    [p EXCEPT !.completed.chunkHeader = FALSE,
              !.completed.chunkBody = FALSE,
              !.completed.chunkExtension = FALSE,
              !.bodyChunkRead = 0,
              !.bodyChunkSize = Undefined,
              !.currentSymbol = <<>>]

\* EventEmitter.emit: the listeners get the events in the order of the
\* calls; and an emitter that hands a later event over first
Emit_Mutant(p, ev) == [p EXCEPT !.out = <<ev>> \o @]
Emit(p, ev) == [p EXCEPT !.out = Append(@, ev)]

EvtHeaders(p) ==
    [type |-> "headers", headers |-> p.headers, statusCode |-> p.statusCode,
     statusMessage |-> p.statusMessage, version |-> p.version]
EvtBodyChunk(data, isLast) == [type |-> "body_chunk", data |-> data, isLast |-> isLast]
EvtError(code) == [type |-> "error", code |-> code]
EvtBodyReadMode(mode, length) == [type |-> "body_read_mode", mode |-> mode, length |-> length]
EvtReset == [type |-> "reset"]

\* Parser.reset: _reset, then the reset event; and a reset that forgets
\* the event
ParserPublicReset_Mutant(p) == ParserReset(p)
ParserPublicReset(p) == Emit(ParserReset(p), EvtReset)

\* get expectedBodySize
ExpectedBodySize(p) == p.bodyLength

\* the three ways an iteration of the loop of feed ends
Continue(p, i) == [p |-> p, next |-> i + 1, stop |-> FALSE]
Return(p) == [p |-> p, next |-> 0, stop |-> TRUE]

\* feed, lines 124-166: version, status code and status message
ParseStatusLine(p, byte, prevByte, i) ==
    IF ~p.completed.version THEN
        IF byte = CHAR_SPACE
        THEN Continue([p EXCEPT !.version = p.currentSymbol,
                                !.completed.version = TRUE,
                                !.currentSymbol = <<>>], i)
        ELSE Continue([p EXCEPT !.currentSymbol = Append(@, byte)], i)
    ELSE IF ~p.completed.statusCode THEN
        IF byte = CHAR_SPACE
        THEN LET sc == ToNumber(p.currentSymbol)
                 q == [p EXCEPT !.statusCode = sc,
                                !.completed.statusCode = TRUE,
                                !.currentSymbol = <<>>]
             IN  IF \/ JsLess(sc, 200)
                    \/ sc = 204
                    \/ sc = 304
                    \/ (sc = 302 /\ ExpectedBodySize(q) = Undefined)
                    \/ (sc = 307 /\ ExpectedBodySize(q) = Undefined)
                 THEN Continue([q EXCEPT !.bodyLength = 0, !.completed.body = TRUE], i)
                 ELSE Continue(q, i)
        ELSE Continue([p EXCEPT !.currentSymbol = Append(@, byte)], i)
    ELSE
        IF byte = CHAR_NEW_LINE /\ prevByte = CHAR_CARRIAGE_RETURN
        THEN Continue([p EXCEPT !.statusMessage = p.currentSymbol,
                                !.completed.statusMessage = TRUE,
                                !.currentSymbol = <<>>], i)
        ELSE IF byte # CHAR_CARRIAGE_RETURN
        THEN Continue([p EXCEPT !.currentSymbol = Append(@, byte)], i)
        ELSE Continue(p, i)

\* feed, lines 192-251: the second consecutive new line ends the header block
EndOfHeaders(p) ==
    LET q1 == [p EXCEPT !.encounteredEndOfLine = 0, !.completed.headers = TRUE]
        q2 == IF HasHeader(q1.headers, HEADER_TRANSFER_ENCODING)
              THEN LET te == ToLowerCase(HeaderValue(q1.headers, HEADER_TRANSFER_ENCODING).s)
                   IN  [q1 EXCEPT !.headers = DeleteHeader(
                                       SetHeader(@, HEADER_TRANSFER_ENCODING, [s |-> te]),
                                       HEADER_CONTENT_LENGTH),
                                  !.bodyLength = Undefined,
                                  !.bodyChunked = Contains(te, STR_CHUNKED)]
              ELSE q1
        q3 == IF ~q2.bodyChunked /\ HasHeader(q2.headers, HEADER_CONTENT_LENGTH)
              THEN LET n == ParseInt(HeaderValue(q2.headers, HEADER_CONTENT_LENGTH).s, 10)
                       a == [q2 EXCEPT !.headers = SetHeader(@, HEADER_CONTENT_LENGTH, [n |-> n])]
                       b == IF n = NaN
                            THEN ParserPublicReset(Emit(a, EvtError("E_INVALID_CONTENT_LENGTH")))
                            ELSE a
                   IN  [b EXCEPT !.bodyLength =
                            IF HasHeader(b.headers, HEADER_CONTENT_LENGTH)
                            THEN HeaderValue(b.headers, HEADER_CONTENT_LENGTH).n
                            ELSE Undefined]
              ELSE q2
        q4 == IF ~q3.bodyChunked /\ q3.bodyLength = Undefined
              THEN Emit(q3, EvtBodyReadMode(BODY_READ_MODE.UNTIL_CLOSE, Undefined))
              ELSE IF q3.bodyChunked
              THEN Emit(q3, EvtBodyReadMode(BODY_READ_MODE.CHUNKED, Undefined))
              ELSE Emit(q3, EvtBodyReadMode(BODY_READ_MODE.FIXED, q3.bodyLength))
        q5 == [q4 EXCEPT !.currentHeaderName = <<>>]
    IN  Emit(q5, EvtHeaders(q5))

\* feed, lines 168-263: one byte of the header block
ParseHeaderByte(p, byte, prevByte, i) ==
    IF byte = CHAR_COLON THEN
        LET q == [p EXCEPT !.encounteredEndOfLine = 0] IN
        IF Len(q.currentHeaderName) > 0
        THEN Continue([q EXCEPT !.currentSymbol = Append(@, CHAR_COLON)], i)
        ELSE LET name == ToLowerCase(q.currentSymbol)
             IN  Continue([q EXCEPT !.currentHeaderName = name,
                                    !.currentSymbol = <<>>,
                                    !.headers = SetHeader(@, name, [s |-> <<>>])], i)
    ELSE IF byte = CHAR_CARRIAGE_RETURN THEN
        Continue(p, i)
    ELSE IF byte = CHAR_NEW_LINE THEN
        LET q == [p EXCEPT !.encounteredEndOfLine = @ + 1] IN
        IF q.encounteredEndOfLine = 1
        THEN Continue([q EXCEPT !.headers = SetHeader(@, q.currentHeaderName,
                                                         [s |-> q.currentSymbol]),
                                !.currentHeaderName = <<>>,
                                !.currentSymbol = <<>>], i)
        ELSE IF q.encounteredEndOfLine = 2
        THEN Continue(EndOfHeaders(q), i)
        ELSE Continue(q, i)
    ELSE
        LET q == [p EXCEPT !.encounteredEndOfLine = 0] IN
        IF Len(q.currentSymbol) = 0 /\ byte = CHAR_SPACE /\ prevByte = CHAR_COLON
        THEN Continue(q, i)
        ELSE Continue([q EXCEPT !.currentSymbol = Append(@, byte)], i)

\* feed, lines 271-377: one iteration in CHUNKED mode.  i is the (1-based)
\* index of the byte; "next" is the index the for loop continues at.
ParseChunkedByte(p, data, byte, i) ==
    IF p.completed.chunkBody THEN
        IF byte = CHAR_CARRIAGE_RETURN THEN Continue(p, i)
        ELSE IF byte = CHAR_NEW_LINE THEN Continue(ParserResetChunk(p), i)
        ELSE Continue(p, i)
    ELSE IF ~p.completed.chunkHeader THEN
        IF byte = CHAR_CARRIAGE_RETURN THEN Continue(p, i)
        ELSE IF byte = CHAR_SEMICOLON
        THEN Continue([p EXCEPT !.completed.chunkExtension = TRUE], i)
        ELSE IF byte = CHAR_NEW_LINE THEN
            LET q == [p EXCEPT !.encounteredEndOfLine = @ + 1,
                               !.completed.chunkHeader = TRUE]
            IN  IF Len(q.currentSymbol) = 0
                THEN Return(ParserPublicReset(Emit(q, EvtError("E_INVALID_CHUNK_SIZE"))))
                ELSE LET size == ParseInt(q.currentSymbol, 16)
                         r == [q EXCEPT !.bodyChunkSize = size]
                     IN  IF size = NaN
                         THEN Return(ParserPublicReset(Emit(r, EvtError("E_INVALID_CHUNK_SIZE"))))
                         ELSE LET t == [r EXCEPT !.currentSymbol = <<>>]
                              IN  IF size = 0
                                  THEN Continue(ParserReset(
                                           Emit([t EXCEPT !.completed.body = TRUE,
                                                          !.completed.chunkBody = TRUE],
                                                EvtBodyChunk(EMPTY_BUFFER, TRUE))), i)
                                  ELSE Continue(t, i)
        ELSE IF ~p.completed.chunkExtension
        THEN Continue([p EXCEPT !.currentSymbol = Append(@, byte)], i)
        ELSE Continue(p, i)
    ELSE
        \* the data of the chunk (the last branch of the source, lines 370-377,
        \* is unreachable: chunkBody is either true or false)
        LET q == [p EXCEPT !.encounteredEndOfLine = 0]
            remainsToRead == q.bodyChunkSize - q.bodyChunkRead
            dataToRead == Min(Len(data), (i - 1) + remainsToRead) - (i - 1)
        IN  IF dataToRead = 0 THEN Return(q)
            ELSE LET r == Emit([q EXCEPT !.bodyRead = @ + dataToRead,
                                         !.bodyChunkRead = @ + dataToRead],
                               EvtBodyChunk(SubSeq(data, i, i + dataToRead - 1), FALSE))
                     t == IF r.bodyChunkRead = r.bodyChunkSize
                          THEN [r EXCEPT !.completed.chunkBody = TRUE] ELSE r
                 IN  \* i += dataToRead, then the i++ of the for loop
                     [p |-> t, next |-> i + dataToRead + 1, stop |-> FALSE]

\* feed, lines 378-399: one iteration in FIXED mode
ParseFixedByte(p, data, i) ==
    LET remainsToRead == p.bodyLength - p.bodyRead
        dataToRead == Min(Len(data), (i - 1) + remainsToRead) - (i - 1)
        q == [p EXCEPT !.bodyRead = @ + dataToRead]
        isLast == q.bodyRead = q.bodyLength
    IN  IF dataToRead > 0
        THEN LET r == Emit(q, EvtBodyChunk(SubSeq(data, i, i + dataToRead - 1), isLast))
             IN  \* i += dataToRead, then the i++ of the for loop
                 [p |-> IF isLast THEN ParserReset(r) ELSE r,
                  next |-> i + dataToRead + 1, stop |-> FALSE]
        ELSE Continue(q, i)

\* feed, lines 119-410: the body of the for loop, for the byte at index i
ParserStep(p, data, i) ==
    LET byte == data[i]
        prevByte == p.prevByte
        q == [p EXCEPT !.prevByte = byte]
    IN  IF ~q.completed.headers THEN
            IF ~(q.completed.version /\ q.completed.statusCode /\ q.completed.statusMessage)
            THEN ParseStatusLine(q, byte, prevByte, i)
            ELSE ParseHeaderByte(q, byte, prevByte, i)
        ELSE IF q.bodyLength = 0 THEN
            Continue(ParserReset(Emit(q, EvtBodyChunk(EMPTY_BUFFER, TRUE))), i)
        ELSE IF q.bodyChunked THEN
            ParseChunkedByte(q, data, byte, i)
        ELSE IF q.bodyLength # Undefined THEN
            ParseFixedByte(q, data, i)
        ELSE
            \* UNTIL_CLOSE: the whole slice is emitted, for each of its bytes
            Continue(Emit(q, EvtBodyChunk(data, FALSE)), i)

RECURSIVE ParserLoop(_, _, _)
ParserLoop(p, data, i) ==
    IF i > Len(data) THEN p
    ELSE LET r == ParserStep(p, data, i)
         IN  IF r.stop THEN r.p ELSE ParserLoop(r.p, data, r.next)

\* Parser.feed(data)
ParserFeed(p, data) == IF Len(data) = 0 THEN p ELSE ParserLoop(p, data, 1)

(***************************************************************************)
(* The byte streams of SpecParser: up to MaxResponses pipelined responses, *)
(* each either fixed-length (content-length) or chunked, as the backend    *)
(* frames them.  A descriptor is [mode, chunks]: the body is the           *)
(* concatenation of the chunks (one chunk at most in FIXED mode).          *)
(***************************************************************************)
MaxResponses == 2
MaxBodyLen == 2

CRLF == <<CHAR_CARRIAGE_RETURN, CHAR_NEW_LINE>>
\* "HTTP/1.1 200 OK\r\n"
STATUS_LINE_200 == <<72,84,84,80,47,49,46,49,32,50,48,48,32,79,75,13,10>>
\* "Content-Length: "
LINE_CONTENT_LENGTH == <<67,111,110,116,101,110,116,45,76,101,110,103,116,104,58,32>>
\* "Transfer-Encoding: chunked\r\n"
LINE_TRANSFER_CHUNKED == <<84,114,97,110,115,102,101,114,45,69,110,99,111,100,105,110,103,58,32,99,104,117,110,107,101,100,13,10>>

RECURSIVE Flatten(_)
Flatten(seqs) == IF Len(seqs) = 0 THEN <<>> ELSE Head(seqs) \o Flatten(Tail(seqs))

\* decimal and hexadecimal digits of a small number
DecDigits(n) == IF n < 10 THEN <<48 + n>> ELSE <<48 + (n \div 10), 48 + (n % 10)>>
HexDigits(n) == IF n < 10 THEN <<48 + n>> ELSE <<87 + n>>

\* the body bytes of the k-th response: letters that no other response uses
BodyBytes(k, n) == [j \in 1..n |-> 96 + (k - 1) * MaxBodyLen + j]

\* all the ways of cutting a body into chunks of at least one byte
RECURSIVE Cuts(_)
Cuts(body) ==
    IF Len(body) = 0 THEN {<<>>}
    ELSE UNION {{<<SubSeq(body, 1, n)>> \o rest : rest \in Cuts(SubSeq(body, n + 1, Len(body)))} :
                n \in 1..Len(body)}

ResponseKinds(k) ==
    UNION {  {[mode |-> BODY_READ_MODE.FIXED,
               chunks |-> IF n = 0 THEN <<>> ELSE <<BodyBytes(k, n)>>]}
             \cup {[mode |-> BODY_READ_MODE.CHUNKED, chunks |-> c] : c \in Cuts(BodyBytes(k, n))}
           : n \in 0..MaxBodyLen }

BodyOf(resp) == Flatten(resp.chunks)

\* the bytes of one response on the wire
Encode(resp) ==
    IF resp.mode = BODY_READ_MODE.FIXED
    THEN STATUS_LINE_200 \o LINE_CONTENT_LENGTH \o DecDigits(Len(BodyOf(resp))) \o CRLF
         \o CRLF \o BodyOf(resp)
    ELSE STATUS_LINE_200 \o LINE_TRANSFER_CHUNKED \o CRLF
         \o Flatten([j \in 1..Len(resp.chunks) |->
                        HexDigits(Len(resp.chunks[j])) \o CRLF \o resp.chunks[j] \o CRLF])
         \o <<48>> \o CRLF \o CRLF

Wires ==
    UNION {{w \in [1..n -> UNION {ResponseKinds(k) : k \in 1..n}] :
                \A k \in 1..n : w[k] \in ResponseKinds(k)} : n \in 1..MaxResponses}

ParserInit ==
    /\ wire \in Wires
    /\ stream = Flatten([k \in 1..Len(wire) |-> Encode(wire[k])])
    /\ fed = 0
    /\ parser = NewParser
    /\ ref = NewParser
    /\ refFed = 0

\* socket 'data' -> parser.feed(data): the next n bytes arrive as one slice
FeedSlice(n) ==
    /\ n >= 1
    /\ fed + n <= Len(stream)
    /\ parser' = ParserFeed(parser, SubSeq(stream, fed + 1, fed + n))
    /\ fed' = fed + n
    /\ UNCHANGED <<wire, stream, ref, refFed>>
    /\ UNCHANGED notParserVars

\* the slice lengths tried: long enough for a slice to hold the end of a
\* header block, a whole body and the first byte of the next response
MaxSliceLen == 4
SliceLens == 1..MaxSliceLen

ParserNext == \E n \in SliceLens : FeedSlice(n)

(***************************************************************************)
(* The byte streams of SpecSlices: up to MaxSlicedResponses responses, the *)
(* last of which may also be delimited by the close of the connection, or  *)
(* carry a content-length or a chunk size the parser rejects, as the       *)
(* responses INVALID_CONTENT_LENGTH, INVALID_CHUNK_SIZE and NO_CHUNK_SIZE   *)
(* of the parser's tests, or carry a content-length next to a transfer     *)
(* coding that is not chunked, or under the status 204.                    *)
(***************************************************************************)
MaxSlicedResponses == 2
MaxSlicedBodyLen == 2

\* "x: y\r\n", a header that says nothing of the body
LINE_OTHER_HEADER == <<120,58,32,121,13,10>>
\* "z", as the "zzz" of the tests
STR_NOT_A_NUMBER == <<122>>
\* "Transfer-Encoding: gzip\r\n", a transfer coding that is not chunked
LINE_TRANSFER_GZIP == <<84,114,97,110,115,102,101,114,45,69,110,99,111,100,105,110,103,58,32,103,122,105,112,13,10>>
\* "HTTP/1.1 204 No Content\r\n"
STATUS_LINE_204 == <<72,84,84,80,47,49,46,49,32,50,48,52,32,78,111,32,67,111,110,116,101,110,116,13,10>>

FramedKinds(k) ==
    UNION {  {[mode |-> BODY_READ_MODE.FIXED,
               chunks |-> IF n = 0 THEN <<>> ELSE <<BodyBytes(k, n)>>],
              [mode |-> BODY_READ_MODE.CHUNKED,
               chunks |-> IF n = 0 THEN <<>> ELSE <<BodyBytes(k, n)>>]}
           : n \in 0..MaxSlicedBodyLen }

LastKinds(k) ==
    FramedKinds(k) \cup
    {[mode |-> m, chunks |-> <<BodyBytes(k, 1)>>] :
        m \in {BODY_READ_MODE.UNTIL_CLOSE, "INVALID_CONTENT_LENGTH",
               "INVALID_CHUNK_SIZE", "NO_CHUNK_SIZE",
               "GZIP_WITH_LENGTH", "NO_CONTENT_WITH_LENGTH"}}

\* the bytes of one response on the wire
EncodeSliced(resp) ==
    CASE resp.mode \in {BODY_READ_MODE.FIXED, BODY_READ_MODE.CHUNKED} -> Encode(resp)
      [] resp.mode = BODY_READ_MODE.UNTIL_CLOSE ->
           STATUS_LINE_200 \o LINE_OTHER_HEADER \o CRLF \o BodyOf(resp)
      [] resp.mode = "INVALID_CONTENT_LENGTH" ->
           STATUS_LINE_200 \o LINE_CONTENT_LENGTH \o STR_NOT_A_NUMBER \o CRLF
           \o CRLF \o BodyOf(resp)
      [] resp.mode = "INVALID_CHUNK_SIZE" ->
           STATUS_LINE_200 \o LINE_TRANSFER_CHUNKED \o CRLF
           \o STR_NOT_A_NUMBER \o CRLF \o BodyOf(resp) \o CRLF \o <<48>> \o CRLF \o CRLF
      [] resp.mode = "GZIP_WITH_LENGTH" ->
           STATUS_LINE_200 \o LINE_TRANSFER_GZIP
           \o LINE_CONTENT_LENGTH \o DecDigits(Len(BodyOf(resp))) \o CRLF
           \o CRLF \o BodyOf(resp)
      [] resp.mode = "NO_CONTENT_WITH_LENGTH" ->
           STATUS_LINE_204
           \o LINE_CONTENT_LENGTH \o DecDigits(Len(BodyOf(resp))) \o CRLF
           \o CRLF \o BodyOf(resp)
      [] OTHER ->
           STATUS_LINE_200 \o LINE_TRANSFER_CHUNKED \o CRLF
           \o CRLF \o BodyOf(resp) \o CRLF \o <<48>> \o CRLF \o CRLF

SlicedWires ==
    UNION {{w \in [1..n -> UNION {LastKinds(k) : k \in 1..n}] :
                /\ \A k \in 1..(n - 1) : w[k] \in FramedKinds(k)
                /\ w[n] \in LastKinds(n)} : n \in 1..MaxSlicedResponses}

SlicesInit ==
    /\ wire \in SlicedWires
    /\ stream = Flatten([k \in 1..Len(wire) |-> EncodeSliced(wire[k])])
    /\ fed = 0
    /\ parser = NewParser
    /\ ref = NewParser
    /\ refFed = 0

\* parser.feed(data) on one of the two parsers: the next n bytes arrive as
\* one slice at the first parser, once the second has been fed the bytes of
\* the slices before; then each byte of that slice arrives at the second
\* parser as a slice of its own
FeedEither(bytewise, n) ==
    /\ n >= 1
    /\ IF bytewise THEN refFed < fed /\ n = 1
                   ELSE refFed = fed /\ fed + n <= Len(stream)
    /\ \E after \in {ParserFeed(IF bytewise THEN ref ELSE parser,
                                 IF bytewise THEN <<stream[refFed + 1]>>
                                 ELSE SubSeq(stream, fed + 1, fed + n))} :
          IF bytewise
          THEN ref' = after /\ refFed' = refFed + 1 /\ UNCHANGED <<fed, parser>>
          ELSE parser' = after /\ fed' = fed + n /\ UNCHANGED <<ref, refFed>>
    /\ UNCHANGED <<wire, stream>>
    /\ UNCHANGED notParserVars

SlicesNext == \E bytewise \in BOOLEAN, n \in SliceLens : FeedEither(bytewise, n)

(***************************************************************************)
(* What a listener of the parser observes.                                 *)
(***************************************************************************)
BodyChunkEvents(out) == SelectSeq(out, LAMBDA e : e.type = "body_chunk")
Terminators(out) == SelectSeq(out, LAMBDA e : e.type = "body_chunk" /\ e.isLast)
ErrorEvents(out) == SelectSeq(out, LAMBDA e : e.type = "error")

\* the bodies delimited by the terminators: the bytes of the body_chunk
\* events up to and including each is_last chunk
RECURSIVE BodiesOf(_, _)
BodiesOf(chunkEvents, acc) ==
    IF Len(chunkEvents) = 0 THEN <<>>
    ELSE LET e == Head(chunkEvents)
         IN  IF e.isLast THEN <<acc \o e.data>> \o BodiesOf(Tail(chunkEvents), <<>>)
             ELSE BodiesOf(Tail(chunkEvents), acc \o e.data)

ReceivedBodies == BodiesOf(BodyChunkEvents(parser.out), <<>>)

\* C4: N well-formed fixed-length or chunked responses, fed in any slicing,
\* give no error and exactly N terminating chunks, and the bytes emitted up
\* to each terminator are the body of the corresponding response.
C4_BodiesPerResponse ==
    /\ ErrorEvents(parser.out) = <<>>
    /\ Len(ReceivedBodies) <= Len(wire)
    /\ \A k \in 1..Len(ReceivedBodies) : ReceivedBodies[k] = BodyOf(wire[k])
    /\ fed = Len(stream) => Len(Terminators(parser.out)) = Len(wire)

(***************************************************************************)
(* Sender (src/http/1.1/Sender.js): the head of one request is written to  *)
(* the socket, then its body is streamed from the edge body source.        *)
(*                                                                         *)
(* The socket is Node's: write() returns false when its buffer is over the *)
(* high-water mark (the data is buffered all the same) and 'drain' is      *)
(* emitted once the buffer is empty again; once('drain') listeners run in  *)
(* the order they were added.                                              *)
(***************************************************************************)
MaxStackedBuffers == 3      \* options.maxStackedBuffers
MaxBodyChunks == 5          \* chunks the edge delivers for one request body
MaxChunkBytes == 2          \* byteLength of a chunk

NoContext == [subscribed |-> FALSE]

\* the request framings _stream distinguishes: 'content-length' in headers,
\* 'transfer-encoding' in headers
SenderRequests ==
    [contentLength : {Undefined} \cup (0..(MaxBodyChunks * MaxChunkBytes)),
     transferEncoding : {"none", "chunked"}]

\* the body the edge will deliver: the byte length of each chunk
SenderBodies ==
    UNION {[1..n -> 1..MaxChunkBytes] : n \in 0..MaxBodyChunks}

RECURSIVE SumSeq(_)
SumSeq(q) == IF Len(q) = 0 THEN 0 ELSE Head(q) + SumSeq(Tail(q))

SenderInit ==
    /\ sRequest \in SenderRequests
    /\ \E chunks \in SenderBodies :
          \* a declared content-length is the length of the body
          /\ sRequest.contentLength # Undefined => sRequest.contentLength = SumSeq(chunks)
          /\ sBody = [chunks |-> chunks, delivered |-> 0, aborted |-> FALSE,
                      tooBusy |-> 0, ended |-> FALSE]
    /\ sContext = NoContext
    /\ sSocket = [out |-> <<>>, needDrain |-> FALSE, drainListeners |-> <<>>]
    /\ sPhase = "scheduled"

\* socket.write(data): sent is what write returns
SocketWrite(sock, data, sent) ==
    [sock EXCEPT !.out = Append(@, data),
                 !.needDrain = @ \/ ~sent]

\* socket.once('drain', listener)
SocketOnceDrain(sock, listener) ==
    [sock EXCEPT !.drainListeners = Append(@, listener)]

\* Sender._stream: subscribes to the body source unless it returns early
SenderStream(req) ==
    IF req.contentLength # Undefined /\ req.contentLength = 0 THEN "no_body"
    ELSE IF req.transferEncoding = "none" THEN "no_body"
    ELSE "streaming"

NewContext ==
    [subscribed |-> TRUE, lastChunkReceived |-> FALSE, backpressure |-> FALSE,
     written |-> 0, stackedBuffers |-> <<>>]

\* Sender._send: the head is written; the body starts now or after drain
SenderSend(sent) ==
    /\ sPhase = "scheduled"
    /\ LET sock == SocketWrite(sSocket, [kind |-> "head", len |-> 0], sent)
       IN  IF ~sent
           THEN /\ sSocket' = SocketOnceDrain(sock, [kind |-> "head"])
                /\ sPhase' = "head_backpressure"
                /\ UNCHANGED sContext
           ELSE /\ sSocket' = sock
                /\ sPhase' = SenderStream(sRequest)
                /\ sContext' = IF SenderStream(sRequest) = "streaming"
                               THEN NewContext ELSE sContext
    /\ UNCHANGED <<sRequest, sBody>>
    /\ UNCHANGED notSenderVars

\* what stackedBuffers.shift() gives on an empty array
UndefinedChunk == [kind |-> "undefined", len |-> 0]

\* Sender._trySendChunk(socket, context, chunk); socket.write(undefined)
\* throws.  The result is the new [ctx, sock], what it returned, and whether
\* it threw.
TrySendChunk(ctx, sock, chunk, sent) ==
    IF ~ctx.backpressure THEN
        IF chunk.kind = "undefined"
        THEN [ctx |-> ctx, sock |-> sock, sent |-> FALSE, threw |-> TRUE]
        ELSE IF ~sent
        THEN [ctx |-> [ctx EXCEPT !.backpressure = TRUE],
              sock |-> SocketOnceDrain(SocketWrite(sock, chunk, FALSE),
                                       [kind |-> "chunk", chunk |-> chunk]),
              sent |-> FALSE, threw |-> FALSE]
        ELSE [ctx |-> [ctx EXCEPT !.written = @ + chunk.len],
              sock |-> SocketWrite(sock, chunk, TRUE),
              sent |-> TRUE, threw |-> FALSE]
    ELSE [ctx |-> [ctx EXCEPT !.stackedBuffers = Append(@, chunk)],
          sock |-> sock, sent |-> FALSE, threw |-> FALSE]

\* body.onData((chunk, isLast) => ...): the edge delivers the next chunk.
\* setStatus is not a method of the reply-handle (it has writeStatus): the
\* cork callback throws before it reaches end().
SenderOnData(sent) ==
    /\ sPhase = "streaming"
    /\ ~sBody.aborted
    /\ sBody.delivered < Len(sBody.chunks)
    /\ LET k == sBody.delivered + 1
           data == [kind |-> "chunk", id |-> k, len |-> sBody.chunks[k]]
           r == TrySendChunk(sContext, sSocket, data, sent)
       IN  /\ sContext' = r.ctx
           /\ sSocket' = r.sock
           /\ sBody' = [sBody EXCEPT
                 !.delivered = k,
                 !.tooBusy = IF ~r.sent /\ Len(r.ctx.stackedBuffers) >= MaxStackedBuffers
                             THEN @ + 1 ELSE @]
    /\ UNCHANGED <<sRequest, sPhase>>
    /\ UNCHANGED notSenderVars

\* one listener of 'drain': the one of _send (line 88) or the one of
\* _trySendChunk (line 111)
RunDrainListener(st, listener, sent) ==
    IF st.phase = "crashed" THEN st
    ELSE IF listener.kind = "head"
    THEN [st EXCEPT !.phase = SenderStream(sRequest),
                    !.ctx = IF SenderStream(sRequest) = "streaming" THEN NewContext ELSE @]
    ELSE LET c1 == [st.ctx EXCEPT !.written = @ + listener.chunk.len,
                                  !.backpressure = FALSE]
             next == IF Len(c1.stackedBuffers) = 0 THEN UndefinedChunk
                     ELSE Head(c1.stackedBuffers)
             c2 == [c1 EXCEPT !.stackedBuffers = IF Len(@) = 0 THEN @ ELSE Tail(@)]
             r == TrySendChunk(c2, st.sock, next, sent)
         IN  [st EXCEPT !.ctx = r.ctx, !.sock = r.sock,
                        !.phase = IF r.threw THEN "crashed" ELSE @]

RECURSIVE RunDrainListeners(_, _, _)
RunDrainListeners(st, listeners, sent) ==
    IF Len(listeners) = 0 THEN st
    ELSE RunDrainListeners(RunDrainListener(st, Head(listeners), sent), Tail(listeners), sent)

\* the socket emits 'drain': its buffer is empty, every once-listener runs
SenderSocketDrain(sent) ==
    /\ sSocket.needDrain
    /\ sPhase # "crashed"
    /\ LET st0 == [ctx |-> sContext, phase |-> sPhase,
                   sock |-> [sSocket EXCEPT !.needDrain = FALSE, !.drainListeners = <<>>]]
           st == RunDrainListeners(st0, sSocket.drainListeners, sent)
       IN  /\ sContext' = st.ctx
           /\ sSocket' = st.sock
           /\ sPhase' = st.phase
    /\ UNCHANGED <<sRequest, sBody>>
    /\ UNCHANGED notSenderVars

\* body.onAborted(() => ...): the client aborts while the body is streamed
SenderOnAborted(sent) ==
    /\ sPhase = "streaming"
    /\ ~sBody.aborted
    /\ sBody.delivered < Len(sBody.chunks)
    /\ sBody' = [sBody EXCEPT !.aborted = TRUE]
    /\ sSocket' =
         IF sRequest.contentLength # Undefined
         THEN SocketWrite(sSocket, [kind |-> "zeros",
                                    len |-> sRequest.contentLength - sContext.written], sent)
         ELSE IF sRequest.transferEncoding = "chunked"
         THEN SocketWrite(sSocket, [kind |-> "last_chunk", len |-> 0], sent)
         ELSE sSocket
    /\ UNCHANGED <<sRequest, sContext, sPhase>>
    /\ UNCHANGED notSenderVars

SenderNext ==
    \/ \E sent \in BOOLEAN : SenderSend(sent)
    \/ \E sent \in BOOLEAN : SenderOnData(sent)
    \/ \E sent \in BOOLEAN : SenderSocketDrain(sent)
    \/ \E sent \in BOOLEAN : SenderOnAborted(sent)

(***************************************************************************)
(* Pipeline (src/http/1.1/strategies/Pipeline.js) with the reply-handles   *)
(* it writes to.                                                           *)
(*                                                                         *)
(* The k-th response of the backend is made of ChunkLen-byte body chunks;  *)
(* a byte is the number 100 k + 10 j + b (response k, chunk j, byte b).    *)
(*                                                                         *)
(* A reply-handle is uWebSockets.js' HttpResponse: every method throws     *)
(* once the client has aborted or the response has been ended; onAborted   *)
(* and onWritable hold one handler each, the last one registered; write    *)
(* buffers what the client socket does not take and returns false then;    *)
(* tryEnd writes what the socket takes and drops the rest, returning       *)
(* [everything written, response complete].                                *)
(***************************************************************************)
MaxPipeRequests == 3        \* requests sent on the connection
PipelineMaxRequests == 2    \* Pipeline options.maxRequests
ChunkLen == 2               \* bytes of a body chunk
MaxFeedEvents == 2          \* parser events emitted by one feed() call
MaxPipeResponses == 2       \* responses the backend sends on the connection

Requests == 1..MaxPipeRequests
Windows == 0..ChunkLen       \* bytes a reply-handle takes during one step

Byte(k, j, b) == 100 * k + 10 * j + b
ChunkData(k, j) == [b \in 1..ChunkLen |-> Byte(k, j, b)]

NewReply ==
    [gone |-> FALSE,            \* the client aborted: the handle is invalid
     aborted |-> FALSE,         \* the aborted property, set by the proxy
     ended |-> FALSE,           \* end() was called or tryEnd completed
     statusLog |-> <<>>,        \* writeStatus calls: the response written
     headerLog |-> <<>>,        \* writeHeaders calls: the response written
     bytes |-> <<>>,            \* body bytes handed to write / tryEnd
     blocked |-> FALSE,         \* last write not accepted, no writable yet
     pushedBlocked |-> FALSE,   \* body bytes were pushed while blocked
     onWritable |-> [kind |-> "none"],
     onAborted |-> "proxy",
     endCalls |-> 0]

\* uWebSockets.js throws on any access to such a handle
ReplyInvalid(rp) == rp.gone \/ rp.ended

\* HttpResponse.tryEnd(data, totalSize) when the client socket takes win bytes
ReplyTryEnd(rp, data, totalSize, win) ==
    LET n == Min(Len(data), win)
        bytes == rp.bytes \o SubSeq(data, 1, n)
        ok == n = Len(data)
        done == Len(bytes) >= totalSize
    IN  [rp |-> [rp EXCEPT !.bytes = bytes,
                           !.blocked = ~ok,
                           !.ended = done,
                           !.pushedBlocked = @ \/ (rp.blocked /\ Len(data) > 0)],
         ok |-> ok, done |-> done]

\* HttpResponse.write(data)
ReplyWrite(rp, data, win) ==
    LET ok == ~rp.blocked /\ Len(data) <= win
    IN  [rp |-> [rp EXCEPT !.bytes = @ \o data,
                           !.blocked = ~ok,
                           !.pushedBlocked = @ \/ (rp.blocked /\ Len(data) > 0)],
         ok |-> ok]

\* HttpResponse.end()
ReplyEnd(rp) == [rp EXCEPT !.ended = TRUE, !.endCalls = @ + 1]

NoBuffer == [defined |-> FALSE, data |-> <<>>]

\* new Pipeline(parser, {maxRequests}); _initDataStream
NewDataStream == [buf |-> <<>>, flowing |-> TRUE]
NewPipeline ==
    [pendingRequests |-> <<>>,
     lock |-> FALSE,
     dataStream |-> NewDataStream,
     pendingBuffer |-> NoBuffer,
     pendingBufferOffset |-> 0,
     pendingRequestTotalSize |-> 0]

\* the variables the handlers read and write, as one record: pl the
\* pipeline, rp the reply-handles, cb the callback calls, tl the log of
\* terminations, cn the connection
World == [pl |-> pipe, rp |-> replies, cb |-> cbLog, tl |-> termLog, cn |-> conn]

\* Pipeline.peek
HasHead(w) == Len(w.pl.pendingRequests) > 0
Peek(w) == w.pl.pendingRequests[1]

\* Readable.pause / Readable.resume on the data stream
StreamPause(w) == [w EXCEPT !.pl.dataStream.flowing = FALSE]
StreamResume(w) == [w EXCEPT !.pl.dataStream.flowing = TRUE]

CauseClose == 0

\* Pipeline.terminateRequest; cause names the parser event (the response it
\* belongs to) or the close that made the call
TerminateRequest(w, cause) ==
    IF HasHead(w)
    THEN StreamResume(
           [w EXCEPT !.pl.pendingRequests = Tail(@),
                     !.pl.lock = FALSE,
                     !.tl = Append(@, [request |-> Peek(w).request, cause |-> cause])])
    ELSE w

\* Pipeline.acceptsMoreRequests
AcceptsMoreRequests(pl) ==
    ~pl.lock /\ (PipelineMaxRequests = 0 \/ Len(pl.pendingRequests) < PipelineMaxRequests)

\* Pipeline.setStatus
SetStatus(w, resp) ==
    IF ~HasHead(w) THEN w
    ELSE LET r == Peek(w).request
             w1 == [w EXCEPT !.pl.pendingRequests[1].status = resp]
         IN  IF ReplyInvalid(w1.rp[r]) THEN w1
             ELSE [w1 EXCEPT !.rp[r].statusLog = Append(@, resp)]

\* Pipeline.setHeaders; contentLength is headers['content-length']
SetHeaders(w, resp, contentLength) ==
    IF ~HasHead(w) THEN w
    ELSE LET r == Peek(w).request
             w1 == [w EXCEPT !.pl.pendingRequests[1].headers = [contentLength |-> contentLength]]
         IN  IF ReplyInvalid(w1.rp[r]) THEN w1
             ELSE [w1 EXCEPT !.rp[r].headerLog = Append(@, resp)]

\* Pipeline._sendStreamChunk
SendStreamChunk(w, item, win) ==
    IF ~HasHead(w) THEN w
    ELSE LET r == Peek(w).request IN
         IF ReplyInvalid(w.rp[r]) THEN w
         ELSE LET wr == ReplyWrite(w.rp[r], item.data, win)
                  w1 == [w EXCEPT !.rp[r] = wr.rp]
              IN  IF ~wr.ok
                  THEN [StreamPause(w1) EXCEPT
                           !.rp[r].onWritable = [kind |-> "stream", isLast |-> item.isLast,
                                                 resp |-> item.resp]]
                  ELSE IF item.isLast
                  THEN LET w2 == TerminateRequest(w1, item.resp)
                       IN  [w2 EXCEPT !.rp[r] = ReplyEnd(@)]
                  ELSE w1

\* Pipeline._sendChunk
SendChunk(w, item, totalSize, win) ==
    IF ~HasHead(w) THEN w
    ELSE LET r == Peek(w).request IN
         IF ReplyInvalid(w.rp[r]) THEN w
         ELSE LET lastOffset == Len(w.rp[r].bytes)
                  te == ReplyTryEnd(w.rp[r], item.data, totalSize, win)
                  w1 == [w EXCEPT !.rp[r] = te.rp]
              IN  IF te.done THEN TerminateRequest(w1, item.resp)
                  ELSE IF ~te.ok
                  THEN [StreamPause(w1) EXCEPT
                           !.pl.pendingBuffer = [defined |-> TRUE, data |-> item.data],
                           !.pl.pendingBufferOffset = lastOffset,
                           !.pl.pendingRequestTotalSize = totalSize]
                  ELSE w1

\* Pipeline.addBody
AddBody(w, item, win) ==
    IF ~HasHead(w) THEN w
    ELSE IF w.rp[Peek(w).request].aborted THEN TerminateRequest(w, item.resp)
    ELSE LET headers == Peek(w).headers
         IN  IF headers.contentLength = Undefined
             THEN SendStreamChunk(w, item, win)
             ELSE SendChunk(w, item, headers.contentLength, win)

\* the 'data' listener of the data stream (_initDataStream)
OnStreamData(w, item, win) ==
    IF ~HasHead(w) THEN w
    ELSE IF Peek(w).stale
    THEN IF item.isLast THEN TerminateRequest(w, item.resp) ELSE w
    ELSE AddBody(w, item, win)

\* Readable flow(): the buffered chunks are emitted while the stream flows
RECURSIVE StreamFlow(_, _)
StreamFlow(w, win) ==
    IF w.pl.dataStream.flowing /\ Len(w.pl.dataStream.buf) > 0
    THEN LET item == Head(w.pl.dataStream.buf)
         IN  StreamFlow(OnStreamData([w EXCEPT !.pl.dataStream.buf = Tail(@)], item, win), win)
    ELSE w

\* Readable.push: emitted at once when the stream flows and has nothing
\* buffered, buffered otherwise
StreamPush(w, item, win) ==
    IF w.pl.dataStream.flowing /\ Len(w.pl.dataStream.buf) = 0
    THEN OnStreamData(w, item, win)
    ELSE [w EXCEPT !.pl.dataStream.buf = Append(@, item)]

\* Pipeline.close(err): every entry is terminated; the callback of the
\* entries that are not stale is called and their reply-handle ended
RECURSIVE CloseLoop(_, _)
CloseLoop(w, code) ==
    IF ~HasHead(w) THEN w
    ELSE LET e == Peek(w)
             r == e.request
             w1 == TerminateRequest(w, CauseClose)
         IN  IF e.stale THEN CloseLoop(w1, code)
             ELSE LET w2 == [w1 EXCEPT !.cb[r] = Append(@, code)]
                      w3 == IF ReplyInvalid(w2.rp[r]) THEN w2
                            ELSE [w2 EXCEPT !.rp[r] = ReplyEnd(@)]
                  IN  CloseLoop(w3, code)

PipelineClose(w, code) ==
    [CloseLoop(w, code) EXCEPT !.pl.dataStream = NewDataStream]

\* the overflow test of scheduleSend on a queue of n entries; and the test
\* of a slip that lets one entry too many in
PipelineFull_Mutant(n) == PipelineMaxRequests > 0 /\ n > PipelineMaxRequests
PipelineFull(n) == PipelineMaxRequests > 0 /\ n >= PipelineMaxRequests

\* Pipeline.scheduleSend, called by Sender.send from Connection.send; the
\* error thrown on overflow is caught by Client.request, which calls the
\* callback with it
ScheduleSend(w, r) ==
    IF PipelineFull(Len(w.pl.pendingRequests))
    THEN [w EXCEPT !.cb[r] = Append(@, "E_PIPELINE_OVERFLOW")]
    ELSE LET registered == ~ReplyInvalid(w.rp[r])
             entry == [request |-> r, status |-> Undefined,
                       headers |-> [contentLength |-> Undefined],
                       stale |-> ~registered /\ w.rp[r].aborted]
             w1 == IF registered
                   THEN [w EXCEPT !.rp[r].onAborted = "pipeline",
                                  !.rp[r].onWritable = [kind |-> "scheduleSend"]]
                   ELSE w
         IN  [w1 EXCEPT !.pl.pendingRequests = Append(@, entry)]

\* Connection.send, with the then / catch of Client.request around it
ConnectionSend(w, r) ==
    IF w.cn.state # "connected"
    THEN [w EXCEPT !.cb[r] = Append(@, "E_NOT_CONNECTED")]
    ELSE ScheduleSend(w, r)

\* Connection.close
ConnectionClose(w) ==
    IF ~w.cn.socket \/ w.cn.state # "connected" THEN w
    ELSE [w EXCEPT !.cn.properlyClosed = TRUE, !.cn.ending = TRUE]

\* connection.emit('error', err)
ConnectionEmitError(w, code) == [w EXCEPT !.cn.errors = Append(@, code)]

\* the events the parser emits for the k-th response, by the kind of the
\* response; ebs is parser.expectedBodySize when the event is emitted
EvHeaders(k, contentLength) ==
    [type |-> "headers", resp |-> k, contentLength |-> contentLength,
     ebs |-> contentLength, data |-> <<>>, isLast |-> FALSE, mode |-> "", code |-> ""]
EvBodyChunk(k, data, isLast, ebs) ==
    [type |-> "body_chunk", resp |-> k, contentLength |-> Undefined,
     ebs |-> ebs, data |-> data, isLast |-> isLast, mode |-> "", code |-> ""]
EvBodyReadMode(k, mode) ==
    [type |-> "body_read_mode", resp |-> k, contentLength |-> Undefined,
     ebs |-> Undefined, data |-> <<>>, isLast |-> FALSE, mode |-> mode, code |-> ""]
EvError(k, code) ==
    [type |-> "error", resp |-> k, contentLength |-> Undefined,
     ebs |-> Undefined, data |-> <<>>, isLast |-> FALSE, mode |-> "", code |-> code]

ResponseKindsPipe == {"FIXED1", "FIXED2", "ZERO", "CHUNKED", "UNTIL_CLOSE", "INVALID"}

EventsOf(k, kind) ==
    CASE kind = "FIXED1" ->
           <<EvBodyReadMode(k, "FIXED"), EvHeaders(k, ChunkLen),
             EvBodyChunk(k, ChunkData(k, 1), TRUE, ChunkLen)>>
      [] kind = "FIXED2" ->
           <<EvBodyReadMode(k, "FIXED"), EvHeaders(k, 2 * ChunkLen),
             EvBodyChunk(k, ChunkData(k, 1), FALSE, 2 * ChunkLen),
             EvBodyChunk(k, ChunkData(k, 2), TRUE, 2 * ChunkLen)>>
      [] kind = "ZERO" ->
           <<EvBodyReadMode(k, "FIXED"), EvHeaders(k, 0),
             EvBodyChunk(k, <<>>, TRUE, 0)>>
      [] kind = "CHUNKED" ->
           <<EvBodyReadMode(k, "CHUNKED"), EvHeaders(k, Undefined),
             EvBodyChunk(k, ChunkData(k, 1), FALSE, Undefined),
             EvBodyChunk(k, <<>>, TRUE, Undefined)>>
      [] kind = "UNTIL_CLOSE" ->
           <<EvBodyReadMode(k, "UNTIL_CLOSE"), EvHeaders(k, Undefined),
             EvBodyChunk(k, ChunkData(k, 1), FALSE, Undefined)>>
      [] OTHER -> <<EvError(k, "E_INVALID_CONTENT_LENGTH")>>

\* the body of the k-th response as the backend sent it
BodyOfKind(k, kind) ==
    CASE kind = "FIXED1" -> ChunkData(k, 1)
      [] kind = "FIXED2" -> ChunkData(k, 1) \o ChunkData(k, 2)
      [] kind = "CHUNKED" -> ChunkData(k, 1)
      [] kind = "UNTIL_CLOSE" -> ChunkData(k, 1)
      [] OTHER -> <<>>

\* the 'headers' listener of the pipeline
OnHeaders(w, ev) ==
    LET w2 == SetHeaders(SetStatus(w, ev.resp), ev.resp, ev.contentLength)
    IN  IF ev.ebs # 0 \/ ~HasHead(w2) THEN w2
        ELSE LET r == Peek(w2).request
                 w3 == IF ReplyInvalid(w2.rp[r]) THEN w2
                       ELSE [w2 EXCEPT !.rp[r] = ReplyEnd(@)]
             IN  TerminateRequest(w3, ev.resp)

\* the 'body_chunk' listener of the pipeline
OnBodyChunk(w, ev, win) ==
    IF ev.ebs = 0 THEN w
    ELSE StreamPush(w, [data |-> ev.data, isLast |-> ev.isLast, resp |-> ev.resp], win)

\* the 'body_read_mode' listener of the pipeline
OnBodyReadMode(w, ev) ==
    IF ev.mode = "UNTIL_CLOSE" /\ HasHead(w) THEN [w EXCEPT !.pl.lock = TRUE] ELSE w

\* the 'error' listeners of the parser: the one of the Client, registered
\* first, then the one of the pipeline
OnParserError(w, ev) ==
    LET w1 == IF ev.code \in {"E_INVALID_CONTENT_LENGTH", "E_INVALID_CHUNK_SIZE"}
              THEN ConnectionClose(ConnectionEmitError(w, ev.code))
              ELSE w
    IN  PipelineClose(w1, ev.code)

OnParserEvent(w, ev, win) ==
    CASE ev.type = "headers" -> OnHeaders(w, ev)
      [] ev.type = "body_chunk" -> OnBodyChunk(w, ev, win)
      [] ev.type = "body_read_mode" -> OnBodyReadMode(w, ev)
      [] OTHER -> OnParserError(w, ev)

\* the events one call of Parser.feed emits, handled one after the other
RECURSIVE Deliver(_, _, _)
Deliver(w, evs, win) ==
    IF evs = <<>> THEN w
    ELSE Deliver(OnParserEvent(w, Head(evs), win), Tail(evs), win)

\* the onWritable handler of scheduleSend; offset is getWriteOffset()
OnWritableScheduleSend(w, r, win) ==
    IF ~w.pl.pendingBuffer.defined THEN w
    ELSE LET offset == Len(w.rp[r].bytes)
             from == offset - w.pl.pendingBufferOffset
             len == Len(w.pl.pendingBuffer.data)
             start == IF from < 0 THEN (IF len + from < 0 THEN 0 ELSE len + from)
                      ELSE Min(from, len)
             data == SubSeq(w.pl.pendingBuffer.data, start + 1, len)
             te == ReplyTryEnd(w.rp[r], data, w.pl.pendingRequestTotalSize, win)
             w1 == [w EXCEPT !.rp[r] = te.rp]
         IN  IF te.ok
             THEN [StreamResume(w1) EXCEPT !.pl.pendingBuffer = NoBuffer,
                                           !.pl.pendingBufferOffset = 0,
                                           !.pl.pendingRequestTotalSize = 0]
             ELSE w1

\* the onWritable handler of _sendStreamChunk
OnWritableStream(w, r, handler) ==
    LET w1 == IF handler.isLast
              THEN TerminateRequest([w EXCEPT !.rp[r] = ReplyEnd(@)], handler.resp)
              ELSE w
    IN  StreamResume(w1)

\* the onAborted handler of scheduleSend
OnAbortedScheduleSend(w, r) ==
    LET q == w.pl.pendingRequests
    IN  StreamResume(
          [w EXCEPT !.pl.pendingRequests =
              [i \in 1..Len(q) |-> IF q[i].request = r
                                   THEN [q[i] EXCEPT !.stale = TRUE] ELSE q[i]]])

ConnMaxReopenAttempts == 1  \* Connection options.maxReopenAttempts

\* new Connection(...): _openConnection has created the socket
NewConnection ==
    [state |-> "connecting",
     socket |-> TRUE,           \* _socket is not null
     failed |-> FALSE,          \* the socket emitted 'error', 'close' follows
     ending |-> FALSE,          \* socket.end() was called
     properlyClosed |-> FALSE,
     reopenAttempts |-> 0,
     reopenTimer |-> FALSE,     \* the timer of a reopening is running
     resolved |-> FALSE,        \* 'connected' was emitted: the Client got it
     errors |-> <<>>]           \* the 'error' events emitted

NoTraffic ==
    [sent |-> 0,                \* requests passed to Connection.send
     accepted |-> <<>>,         \* requests scheduleSend queued, in order
     immediates |-> <<>>,       \* setImmediate callbacks not run yet
     onWire |-> <<>>,           \* requests whose head was written
     kinds |-> <<>>,            \* the responses the backend has sent
     inbox |-> <<>>,            \* parser events of bytes not read yet
     backendDone |-> FALSE,     \* the backend sends nothing more
     bodied |-> {}]             \* requests with a transfer-encoding header

PipeInit ==
    /\ pipe = NewPipeline
    /\ replies = [r \in Requests |-> NewReply]
    /\ cbLog = [r \in Requests |-> <<>>]
    /\ termLog = <<>>
    /\ conn = NewConnection
    /\ traffic = NoTraffic

\* the same connection when every request carries a body, announced by a
\* transfer-encoding header, that Sender._stream forwards
DuplexInit ==
    /\ pipe = NewPipeline
    /\ replies = [r \in Requests |-> NewReply]
    /\ cbLog = [r \in Requests |-> <<>>]
    /\ termLog = <<>>
    /\ conn = NewConnection
    /\ traffic = [NoTraffic EXCEPT !.bodied = Requests]

\* the handlers have run: the process.nextTick queue runs (the data stream
\* flows if it was resumed) and the state is stored
Commit(w, win) ==
    LET w1 == StreamFlow(w, win)
    IN  /\ pipe' = w1.pl
        /\ replies' = w1.rp
        /\ cbLog' = w1.cb
        /\ termLog' = w1.tl
        /\ conn' = w1.cn

\* socket 'connect'
SocketConnect ==
    /\ conn.socket /\ conn.state = "connecting" /\ ~conn.failed
    /\ conn' = [conn EXCEPT !.state = "connected", !.reopenAttempts = 0, !.resolved = TRUE]
    /\ UNCHANGED <<pipe, replies, cbLog, termLog, traffic>>
    /\ UNCHANGED notPipeVars

\* Client.request once the connection is obtained: connection.send
SendRequest(win) ==
    /\ conn.resolved
    /\ traffic.sent < MaxPipeRequests
    /\ LET r == traffic.sent + 1
           w == ConnectionSend(World, r)
           queued == Len(w.pl.pendingRequests) > Len(pipe.pendingRequests)
       IN  /\ Commit(w, win)
           /\ traffic' = [traffic EXCEPT
                 !.sent = r,
                 !.accepted = IF queued THEN Append(@, r) ELSE @,
                 !.immediates = IF queued THEN Append(@, r) ELSE @]
    /\ UNCHANGED notPipeVars

\* Sender._stream for a request with a transfer-encoding header: onData
\* and onAborted are registered on the reply-handle of the request, which
\* holds one handler of each kind, the one registered last
SenderStreamOn(rp) ==
    IF ReplyInvalid(rp) THEN rp ELSE [rp EXCEPT !.onAborted = "sender"]

\* the setImmediate callback of scheduleSend: Sender._send writes the head
\* of the request to the socket, which takes it, and calls _stream
RunImmediate ==
    /\ traffic.immediates # <<>>
    /\ LET r == Head(traffic.immediates)
           written == conn.socket /\ ~conn.failed /\ ~conn.ending
       IN  /\ traffic' = [traffic EXCEPT
                 !.immediates = Tail(@),
                 !.onWire = IF written THEN Append(@, r) ELSE @]
           /\ replies' = IF written /\ r \in traffic.bodied
                         THEN [replies EXCEPT ![r] = SenderStreamOn(@)]
                         ELSE replies
    /\ UNCHANGED <<pipe, cbLog, termLog, conn>>
    /\ UNCHANGED notPipeVars

\* the backend answers the next request it has read
BackendRespond(kind) ==
    /\ conn.socket /\ conn.state = "connected" /\ ~conn.failed
    /\ ~traffic.backendDone
    /\ Len(traffic.kinds) < Len(traffic.onWire)
    /\ Len(traffic.kinds) < MaxPipeResponses
    /\ LET k == Len(traffic.kinds) + 1
       IN  traffic' = [traffic EXCEPT
              !.kinds = Append(@, kind),
              !.inbox = @ \o EventsOf(k, kind),
              !.backendDone = kind \in {"UNTIL_CLOSE", "INVALID"}]
    /\ UNCHANGED <<pipe, replies, cbLog, termLog, conn>>
    /\ UNCHANGED notPipeVars

\* socket 'data': Parser.feed emits the next n events
SocketData(n, win) ==
    /\ conn.socket /\ conn.state = "connected" /\ ~conn.failed
    /\ n <= Len(traffic.inbox)
    /\ Commit(Deliver(World, SubSeq(traffic.inbox, 1, n), win), win)
    /\ traffic' = [traffic EXCEPT !.inbox = SubSeq(@, n + 1, Len(@))]
    /\ UNCHANGED notPipeVars

\* the reply-handle of request r becomes writable: its onWritable handler
ReplyWritable(r, win) ==
    /\ replies[r].blocked /\ ~ReplyInvalid(replies[r])
    /\ replies[r].onWritable.kind # "none"
    /\ win >= 1
    /\ LET w == [World EXCEPT !.rp[r].blocked = FALSE]
           handler == replies[r].onWritable
       IN  Commit(IF handler.kind = "scheduleSend"
                  THEN OnWritableScheduleSend(w, r, win)
                  ELSE OnWritableStream(w, r, handler), win)
    /\ UNCHANGED traffic
    /\ UNCHANGED notPipeVars

\* the onAborted handler the proxy installs before it calls Client.request:
\* it sets the aborted flag of the reply-handle
OnAbortedProxy(w, r) == [w EXCEPT !.rp[r].aborted = TRUE]

\* the onAborted handler of Sender._stream: it ends the request body on
\* the socket of the backend, and touches nothing of the pipeline
OnAbortedSender(w, r) == w

\* the client of request r goes away: the onAborted handler of its
\* reply-handle, the one of the proxy until scheduleSend has replaced it,
\* the one of the pipeline until Sender._stream has
ClientAbort(r, win) ==
    /\ r <= traffic.sent + 1
    /\ ~ReplyInvalid(replies[r])
    /\ LET w == [World EXCEPT !.rp[r].gone = TRUE]
       IN  Commit(CASE replies[r].onAborted = "pipeline" -> OnAbortedScheduleSend(w, r)
                    [] replies[r].onAborted = "sender" -> OnAbortedSender(w, r)
                    [] OTHER -> OnAbortedProxy(w, r), win)
    /\ UNCHANGED traffic
    /\ UNCHANGED notPipeVars

\* the test of the ECONNREFUSED branch: no reopening is left; and the test
\* of a slip that allows one reopening more
ReopenExhausted_Mutant(attempts) == attempts > ConnMaxReopenAttempts
ReopenExhausted(attempts) == attempts >= ConnMaxReopenAttempts

\* socket 'error'
SocketError(code, win) ==
    /\ conn.socket /\ ~conn.failed
    /\ code = "ECONNREFUSED" <=> conn.state = "connecting"
    /\ LET w == [World EXCEPT !.cn.failed = TRUE]
       IN  IF code = "ECONNREFUSED"
           THEN IF ReopenExhausted(w.cn.reopenAttempts)
                THEN Commit(ConnectionEmitError(w, code), win)
                ELSE Commit([w EXCEPT !.cn.state = "closed",
                                      !.cn.reopenAttempts = @ + 1,
                                      !.cn.reopenTimer = TRUE], win)
           ELSE LET err == IF code = "ECONNABORTED" THEN "E_RECIPIENT_ABORTED" ELSE code
                IN  Commit(PipelineClose(ConnectionEmitError(w, err), err), win)
    /\ UNCHANGED traffic
    /\ UNCHANGED notPipeVars

\* socket 'close': it follows an error or the end of the socket, or the
\* backend closes the connection once everything it sent has been read
SocketClose(win) ==
    /\ conn.socket
    /\ conn.failed \/ traffic.inbox = <<>>
    /\ Commit(PipelineClose([World EXCEPT !.cn.socket = FALSE,
                                          !.cn.state = "closed"],
                            "E_PIPELINE_ABORTED"), win)
    /\ traffic' = [traffic EXCEPT !.inbox = <<>>, !.backendDone = TRUE]
    /\ UNCHANGED notPipeVars

\* the timer of a reopening: _openConnection
ReopenTimer ==
    /\ conn.reopenTimer /\ ~conn.socket
    /\ conn' = [conn EXCEPT !.reopenTimer = FALSE, !.state = "connecting",
                            !.socket = TRUE, !.failed = FALSE, !.ending = FALSE]
    /\ UNCHANGED <<pipe, replies, cbLog, termLog, traffic>>
    /\ UNCHANGED notPipeVars

FeedSizes == 1..MaxFeedEvents
SocketErrors == {"ECONNREFUSED", "ECONNRESET", "ECONNABORTED"}

PipeNext ==
    \/ SocketConnect
    \/ \E win \in Windows : SendRequest(win)
    \/ RunImmediate
    \/ \E kind \in ResponseKindsPipe : BackendRespond(kind)
    \/ \E n \in FeedSizes, win \in Windows : SocketData(n, win)
    \/ \E r \in Requests, win \in Windows : ReplyWritable(r, win)
    \/ \E r \in Requests, win \in Windows : ClientAbort(r, win)
    \/ \E code \in SocketErrors, win \in Windows : SocketError(code, win)
    \/ \E win \in Windows : SocketClose(win)
    \/ ReopenTimer

(***************************************************************************)
(* Client (src/http/Client.js): the pool of connections.  A connection is  *)
(* seen here from the Client: its state, its promise, and of its pipeline  *)
(* the number of queued requests and the lock.                             *)
(***************************************************************************)
MaxConnectionsByHost == 2       \* Client options.maxConnectionsByHost
MaxPipelinedByConnection == 2   \* options.maxPipelinedRequestsByConnection
MaxClientRequests == 3          \* calls of Client.request
MaxPoolConns == 3               \* connections the Client creates
MaxKeyedRequests == 2           \* calls of Client.request in SpecKeys
PoolMaxReopenAttempts == 1      \* options.reconnectionAttempts

HostKeys == {"a:80", "b:80"}
ConnIds == 1..MaxPoolConns

NoConn ==
    [key |-> "", state |-> "none", promise |-> "none", socket |-> FALSE,
     failed |-> FALSE, ending |-> FALSE, reopenAttempts |-> 0, reopenTimer |-> FALSE,
     attached |-> FALSE, load |-> 0, lock |-> FALSE,
     inFlightKill |-> FALSE,    \* the watcher closed it with a request queued
     parserFailed |-> FALSE]    \* its parser emitted a fatal error

\* new Client(): both maps are empty.  keys and budget are the host:port
\* keys the callers of request use and the number of calls they make;
\* closedKey is the key close(host, port) was called with
NewClient(keys, budget) ==
    [closed |-> FALSE,
     closedKey |-> "",
     watcher |-> TRUE,
     requests |-> 0,
     keys |-> keys,
     budget |-> budget,
     pending |-> [k \in HostKeys |-> <<>>],
     ready |-> [k \in HostKeys |-> <<>>]]

ClientInit ==
    /\ client = NewClient({"a:80"}, MaxClientRequests)
    /\ conns = [id \in ConnIds |-> NoConn]
    /\ calls = <<>>

\* the same Client, called for two backends
KeysInit ==
    /\ client = NewClient(HostKeys, MaxKeyedRequests)
    /\ conns = [id \in ConnIds |-> NoConn]
    /\ calls = <<>>

\* the calls of Client.request whose callback has not been called yet; the
\* variable calls holds them, and the calls the latest step settled
Outstanding(cl) == SelectSeq(cl, LAMBDA call : call.outcome = "waiting")

\* Array.indexOf, 0 when absent, and Array.splice(indexOf(x), 1): with
\* indexOf = -1 the last element is removed
IndexOf(seq, x) ==
    IF \E i \in 1..Len(seq) : seq[i] = x
    THEN CHOOSE i \in 1..Len(seq) : seq[i] = x /\ \A j \in 1..(i - 1) : seq[j] # x
    ELSE 0
SpliceOne(seq, x) ==
    LET pos == IF IndexOf(seq, x) = 0 THEN Len(seq) ELSE IndexOf(seq, x)
    IN  IF seq = <<>> THEN seq
        ELSE SubSeq(seq, 1, pos - 1) \o SubSeq(seq, pos + 1, Len(seq))

\* Connection.isAvailable with Pipeline.acceptsMoreRequests
PoolIsAvailable(c) ==
    /\ c.state = "connected"
    /\ ~c.lock
    /\ (MaxPipelinedByConnection = 0 \/ c.load < MaxPipelinedByConnection)

\* Connection.send -> Sender.send -> Pipeline.scheduleSend, for a request
\* of Client.request: the outcome, and the connection afterwards
PoolSendOutcome(c) ==
    IF c.state # "connected" THEN "E_NOT_CONNECTED"
    ELSE IF MaxPipelinedByConnection > 0 /\ c.load >= MaxPipelinedByConnection
    THEN "E_PIPELINE_OVERFLOW"
    ELSE "sent"
PoolSend(c) ==
    IF PoolSendOutcome(c) = "sent"
    THEN [c EXCEPT !.load = @ + 1]
    ELSE c

\* the requests that await the promise of connection id get the connection
\* (send) or the error, in the order of their calls
RECURSIVE SettleWaiters(_, _, _, _, _)
SettleWaiters(cl, cs, id, err, i) ==
    IF i > Len(cl) THEN [calls |-> cl, conns |-> cs]
    ELSE IF cl[i].outcome = "waiting" /\ cl[i].conn = id
    THEN IF err # ""
         THEN SettleWaiters([cl EXCEPT ![i].outcome = err], cs, id, err, i + 1)
         ELSE SettleWaiters([cl EXCEPT ![i].outcome = PoolSendOutcome(cs[id])],
                            [cs EXCEPT ![id] = PoolSend(cs[id])], id, err, i + 1)
    ELSE SettleWaiters(cl, cs, id, err, i + 1)

\* the next connection the Client creates
FreshConn == CHOOSE id \in ConnIds : conns[id].state = "none" /\
                 \A j \in ConnIds : j < id => conns[j].state # "none"

\* Client._createConnection at the cap: selectConnectionIn of the pending
\* promises followed by the connections
CapList(key) == client.pending[key] \o client.ready[key]

\* _createConnection: the test of the cap, with the cap test of a slip
\* that lets one connection too many be created
AtCap_Mutant(nb) == nb > MaxConnectionsByHost
AtCap(nb) == nb >= MaxConnectionsByHost

\* Client.request -> _getConnection -> _createConnection; pick is the
\* random index of selectConnectionIn
ClientRequest(key, pick) ==
    /\ key \in client.keys
    /\ client.requests < client.budget
    /\ LET nb == Len(client.ready[key]) + Len(client.pending[key])
           atCap == AtCap(nb)
           available == \E i \in 1..Len(client.ready[key]) :
                           PoolIsAvailable(conns[client.ready[key][i]])
           call == [key |-> key, atCap |-> atCap, noneAvailable |-> ~available,
                    created |-> FALSE, conn |-> 0, outcome |-> "waiting",
                    afterError |-> FALSE]
           counted == [client EXCEPT !.requests = @ + 1]
       IN  IF client.closed
           THEN /\ pick = 1
                /\ calls' = Append(Outstanding(calls), [call EXCEPT !.outcome = "E_CLIENT_CLOSED"])
                /\ client' = counted
                /\ conns' = conns
           ELSE IF atCap /\ CapList(key) # <<>>
           THEN /\ pick <= Len(CapList(key))
                /\ LET id == CapList(key)[pick]
                   IN  IF conns[id].promise = "resolved"
                       THEN /\ calls' = Append(Outstanding(calls),
                                   [call EXCEPT !.conn = id,
                                                !.afterError = conns[id].parserFailed,
                                                !.outcome = PoolSendOutcome(conns[id])])
                            /\ conns' = [conns EXCEPT ![id] = PoolSend(@)]
                       ELSE /\ calls' = Append(Outstanding(calls),
                                   [call EXCEPT !.conn = id,
                                                !.outcome = IF conns[id].promise = "rejected"
                                                            THEN "E_CONNECTION" ELSE "waiting"])
                            /\ conns' = conns
                /\ client' = counted
           ELSE IF atCap
           THEN /\ pick = 1
                /\ calls' = Append(Outstanding(calls), [call EXCEPT !.outcome = "E_MAX_CONNECTIONS"])
                /\ client' = counted
                /\ conns' = conns
           ELSE /\ pick = 1
                /\ \E id \in ConnIds : conns[id].state = "none"
                /\ LET id == FreshConn
                   IN  /\ client' = [counted EXCEPT !.pending[key] = Append(@, id)]
                       /\ conns' = [conns EXCEPT ![id] =
                             [NoConn EXCEPT !.key = key, !.state = "connecting",
                                            !.promise = "pending", !.socket = TRUE,
                                            !.attached = TRUE]]
                       /\ calls' = Append(Outstanding(calls), [call EXCEPT !.conn = id, !.created = TRUE])
    /\ UNCHANGED notClientVars

\* the 'closed' listener of _createConnection: the connection is spliced
\* out of the array of its key, the one the map held when it was created
PoolOnClosed(cli, c, id) ==
    IF c.attached THEN [cli EXCEPT !.ready[c.key] = SpliceOne(@, id)] ELSE cli

\* the 'connected' listener of _createConnection
PoolOnConnected(cli, c, id) ==
    LET cli1 == [cli EXCEPT !.pending[c.key] = SpliceOne(@, id)]
    IN  IF c.attached THEN [cli1 EXCEPT !.ready[c.key] = Append(@, id)] ELSE cli1

\* socket 'connect' of connection id: 'connected' is emitted, the promise
\* resolved, and the requests awaiting it are sent
PoolConnected(id) ==
    /\ conns[id].state = "connecting" /\ conns[id].socket /\ ~conns[id].failed
    /\ LET c == [conns[id] EXCEPT !.state = "connected", !.reopenAttempts = 0,
                                  !.promise = "resolved"]
           settled == SettleWaiters(Outstanding(calls), [conns EXCEPT ![id] = c], id, "", 1)
       IN  /\ client' = PoolOnConnected(client, c, id)
           /\ conns' = settled.conns
           /\ calls' = settled.calls
    /\ UNCHANGED notClientVars

\* socket 'error' ECONNREFUSED of connection id
PoolRefused(id) ==
    /\ conns[id].state = "connecting" /\ conns[id].socket /\ ~conns[id].failed
    /\ IF conns[id].reopenAttempts >= PoolMaxReopenAttempts
       THEN LET settled == SettleWaiters(Outstanding(calls),
                              [conns EXCEPT ![id].failed = TRUE, ![id].promise = "rejected"],
                              id, "ECONNREFUSED", 1)
            IN  /\ conns' = settled.conns
                /\ calls' = settled.calls
                /\ UNCHANGED client
       ELSE /\ conns' = [conns EXCEPT ![id].failed = TRUE, ![id].state = "closed",
                                      ![id].reopenAttempts = @ + 1,
                                      ![id].reopenTimer = TRUE]
            /\ client' = PoolOnClosed(client, conns[id], id)
            /\ calls' = Outstanding(calls)
    /\ UNCHANGED notClientVars

\* any other socket 'error' of a connected connection: 'error' is emitted
\* (the promise is resolved already) and the pipeline closed
PoolSocketError(id) ==
    /\ conns[id].state = "connected" /\ conns[id].socket /\ ~conns[id].failed
    /\ conns' = [conns EXCEPT ![id].failed = TRUE, ![id].load = 0, ![id].lock = FALSE]
    /\ client' = client
    /\ calls' = Outstanding(calls)
    /\ UNCHANGED notClientVars

\* a connection that was connected and whose socket is closed: no listener
\* of its socket is left and no timer reopens it
Finished(c) == [NoConn EXCEPT !.key = c.key, !.state = "closed", !.promise = "resolved"]

\* socket 'close' of connection id: after an error, after socket.end(), or
\* closed by the backend
PoolSocketClose(id) ==
    /\ conns[id].socket
    /\ conns[id].failed \/ conns[id].ending \/ conns[id].state = "connected"
    /\ conns' = [conns EXCEPT ![id] =
                   IF conns[id].promise = "resolved"
                   THEN Finished(conns[id])
                   ELSE [conns[id] EXCEPT !.socket = FALSE, !.state = "closed",
                                          !.failed = FALSE, !.ending = FALSE]]
    /\ client' = PoolOnClosed(client, conns[id], id)
    /\ calls' = Outstanding(calls)
    /\ UNCHANGED notClientVars

\* the timer of a reopening of connection id
PoolReopen(id) ==
    /\ conns[id].reopenTimer /\ ~conns[id].socket
    /\ conns' = [conns EXCEPT ![id].reopenTimer = FALSE, ![id].state = "connecting",
                              ![id].socket = TRUE, ![id].failed = FALSE,
                              ![id].ending = FALSE]
    /\ client' = client
    /\ calls' = Outstanding(calls)
    /\ UNCHANGED notClientVars

\* Connection.close
PoolConnClose(c) ==
    IF ~c.socket \/ c.state # "connected" THEN c ELSE [c EXCEPT !.ending = TRUE]

\* the connection watcher ticks and finds connection id available, more
\* than connectionTimeout after the last 'connect' or 'data' event of its
\* socket (no step of the model is bound to a time)
PoolWatcher(id) ==
    /\ client.watcher
    /\ \E k \in HostKeys : IndexOf(client.ready[k], id) # 0
    /\ PoolIsAvailable(conns[id])
    /\ ~conns[id].ending
    /\ conns' = [conns EXCEPT ![id] = [PoolConnClose(@) EXCEPT
                                         !.inFlightKill = conns[id].load > 0]]
    /\ client' = client
    /\ calls' = Outstanding(calls)
    /\ UNCHANGED notClientVars

\* the parser of connection id emits a fatal error while it reads the
\* data of the socket: the listener of the Client emits 'error' on the
\* connection (its promise is resolved already) and closes it, the listener
\* of the pipeline closes the pipeline
PoolParserError(id) ==
    /\ conns[id].state = "connected" /\ conns[id].socket /\ ~conns[id].failed
    /\ conns' = [conns EXCEPT ![id] = [PoolConnClose(@) EXCEPT
                                         !.load = 0, !.lock = FALSE,
                                         !.parserFailed = TRUE]]
    /\ client' = client
    /\ calls' = Outstanding(calls)
    /\ UNCHANGED notClientVars

\* the pipeline of connection id terminates its head request
PoolResponseDone(id) ==
    /\ conns[id].state = "connected" /\ conns[id].socket /\ ~conns[id].failed
    /\ conns[id].load > 0
    /\ conns' = [conns EXCEPT ![id].load = @ - 1, ![id].lock = FALSE]
    /\ client' = client
    /\ calls' = Outstanding(calls)
    /\ UNCHANGED notClientVars

\* the parser of connection id emits body_read_mode UNTIL_CLOSE
PoolUntilClose(id) ==
    /\ conns[id].state = "connected" /\ conns[id].socket /\ ~conns[id].failed
    /\ conns[id].load > 0 /\ ~conns[id].lock
    /\ conns' = [conns EXCEPT ![id].lock = TRUE]
    /\ client' = client
    /\ calls' = Outstanding(calls)
    /\ UNCHANGED notClientVars

\* Client.close(host, port): the connections of the key are closed and the
\* key deleted from the map of connections
ClientCloseKey(key) ==
    /\ ~client.closed
    /\ client' = [client EXCEPT !.closed = TRUE, !.closedKey = key,
                                !.ready[key] = <<>>]
    /\ conns' = [id \in ConnIds |->
                   IF IndexOf(client.ready[key], id) # 0
                   THEN [PoolConnClose(conns[id]) EXCEPT !.attached = FALSE]
                   ELSE IF conns[id].key = key
                   THEN [conns[id] EXCEPT !.attached = FALSE]
                   ELSE conns[id]]
    /\ calls' = Outstanding(calls)
    /\ UNCHANGED notClientVars

\* Client.close(): every connection of the map is closed; a key is deleted
\* inside the loop over its connections, so only if it has one
ClientCloseAll ==
    /\ ~client.closed
    /\ client' = [client EXCEPT !.closed = TRUE, !.watcher = FALSE,
                                !.ready = [k \in HostKeys |-> <<>>]]
    /\ conns' = [id \in ConnIds |->
                   IF conns[id].state = "none" THEN conns[id]
                   ELSE IF IndexOf(client.ready[conns[id].key], id) # 0
                   THEN [PoolConnClose(conns[id]) EXCEPT !.attached = FALSE]
                   ELSE IF client.ready[conns[id].key] # <<>>
                   THEN [conns[id] EXCEPT !.attached = FALSE]
                   ELSE conns[id]]
    /\ calls' = Outstanding(calls)
    /\ UNCHANGED notClientVars

Picks == 1..MaxConnectionsByHost

ClientNext ==
    \/ \E key \in HostKeys, pick \in Picks : ClientRequest(key, pick)
    \/ \E id \in ConnIds : PoolConnected(id)
    \/ \E id \in ConnIds : PoolRefused(id)
    \/ \E id \in ConnIds : PoolSocketError(id)
    \/ \E id \in ConnIds : PoolSocketClose(id)
    \/ \E id \in ConnIds : PoolReopen(id)
    \/ \E id \in ConnIds : PoolWatcher(id)
    \/ \E id \in ConnIds : PoolParserError(id)
    \/ \E id \in ConnIds : PoolResponseDone(id)
    \/ \E id \in ConnIds : PoolUntilClose(id)
    \/ \E key \in HostKeys : ClientCloseKey(key)
    \/ ClientCloseAll

(***************************************************************************)
(* UWSProxy (src/UWSProxy.js) with the helpers of src/utils/uwsHelpers.js: *)
(* one request of the edge is decoded, gets its x-forwarded-* headers, is  *)
(* forwarded with http.request, and a failure is answered through the      *)
(* error hook or with the default error response.                          *)
(*                                                                         *)
(* A header value is a sequence of tokens, so that the concatenations of   *)
(* the code are concatenations here; '' and an absent header are both the  *)
(* empty sequence (both are falsy for the || of the code).  The object     *)
(* handed to writeHeaders is the sequence of its keys in insertion order.  *)
(*                                                                         *)
(* The reply-handle is uWebSockets.js' HttpResponse: a call on an aborted  *)
(* or ended handle throws, a second writeStatus is ignored, and writeHeader*)
(* or end on a handle without status write '200 OK' first.  The forwarded  *)
(* request is Node's http.ClientRequest: it has the timeouts the platform  *)
(* gives its socket and no other, since no timeout option is passed.       *)
(***************************************************************************)
ProxyTimeout == 2           \* opts.timeout, in ticks of the clock
MaxTicks == ProxyTimeout + 1

Absent == <<>>
UndefinedValue == "undefined"

HeaderNames ==
    {"x-forwarded-for", "x-forwarded-port", "x-forwarded-proto", "x-forwarded-host", "host"}

\* what an earlier proxy, or the client, sent in header h
IncomingValue(h) ==
    CASE h = "x-forwarded-for" -> <<"203.0.113.9">>
      [] h = "x-forwarded-port" -> <<"8080">>
      [] h = "x-forwarded-proto" -> <<"https">>
      [] h = "x-forwarded-host" -> <<"shop.example">>
      [] OTHER -> <<"proxy.example">>

PeerAddress == <<"192.0.2.7">>      \* uwsResponse.getRemoteAddressAsText()
PublicPort == <<"443">>             \* uwsConfig.port

IncomingHeaders ==
    {hs \in [HeaderNames -> {Absent} \cup {IncomingValue(h) : h \in HeaderNames}] :
        \A h \in HeaderNames : hs[h] \in {Absent, IncomingValue(h)}}

ErrorCodes == {"ECONNRESET", "ECONNABORTED", "ECONNREFUSED", "EPIPE"}

\* what the function given as opts.on.error does when it is called
HookOutcomes ==
    {"returns_nothing", "returns_response", "throws",
     "rejects", "resolves_nothing", "resolves_response"}

NoPromise == [kind |-> "none", code |-> ""]

NewUwsResponse ==
    [status |-> <<>>, headers |-> <<>>, body |-> [kind |-> "none", code |-> ""],
     ended |-> FALSE, aborted |-> FALSE]

NewProxy(ssl, hasHook, headers) ==
    [ssl |-> ssl, hasHook |-> hasHook, incoming |-> headers,
     phase |-> "received", forwarded |-> [h \in HeaderNames |-> Absent],
     elapsed |-> 0, headReceived |-> FALSE, errors |-> <<>>,
     hook |-> "none", pending |-> NoPromise, logged |-> 0, uncaught |-> FALSE,
     bodyStreamError |-> FALSE, uwsResponse |-> NewUwsResponse]

ProxyInit ==
    \E ssl \in BOOLEAN, hasHook \in BOOLEAN, headers \in IncomingHeaders :
        proxy = NewProxy(ssl, hasHook, headers)

ProxyIdle == proxy = NewProxy(FALSE, FALSE, [h \in HeaderNames |-> Absent])

\* a || b of JavaScript on strings
Or(a, b) == IF a # Absent THEN a ELSE b

\* decodeRequest: the headers as received, and client.remoteAddress
DecodeRequest(headers) ==
    [request |-> [headers |-> headers],
     client |-> [remoteAddress |-> Or(headers["x-forwarded-for"], PeerAddress)]]

\* the loop over ['for', 'port', 'proto'] and the x-forwarded-host line
ForwardedHeaders(ssl, decoded) ==
    LET headers == decoded.request.headers
        proxyHeaders == [for |-> decoded.client.remoteAddress,
                         port |-> PublicPort,
                         proto |-> IF ssl THEN <<"https">> ELSE <<"http">>]
        Extended(h, own) ==
            Or(headers[h], <<>>) \o (IF headers[h] # Absent THEN <<",">> ELSE <<>>) \o own
    IN  [h \in HeaderNames |->
            CASE h = "x-forwarded-for" -> Extended(h, proxyHeaders.for)
              [] h = "x-forwarded-port" -> Extended(h, proxyHeaders.port)
              [] h = "x-forwarded-proto" -> Extended(h, proxyHeaders.proto)
              [] h = "x-forwarded-host" ->
                    Or(headers["x-forwarded-host"], Or(headers["host"], <<>>))
              [] OTHER -> headers[h]]

\* uwsResponse.writeStatus(status)
UwsWriteStatus(res, status) ==
    IF res.aborted \/ res.ended THEN [res |-> res, threw |-> TRUE]
    ELSE [res |-> IF Len(res.status) = 0 THEN [res EXCEPT !.status = <<status>>] ELSE res,
          threw |-> FALSE]

\* uwsResponse.writeHeader(key, value)
UwsWriteHeader(res, header) ==
    IF res.aborted \/ res.ended THEN [res |-> res, threw |-> TRUE]
    ELSE [res |-> [res EXCEPT !.status = IF Len(@) = 0 THEN <<"200 OK">> ELSE @,
                              !.headers = Append(@, header)],
          threw |-> FALSE]

\* uwsResponse.end(body)
UwsEnd(res, body) ==
    IF res.aborted \/ res.ended THEN [res |-> res, threw |-> TRUE]
    ELSE [res |-> [res EXCEPT !.status = IF Len(@) = 0 THEN <<"200 OK">> ELSE @,
                              !.body = body, !.ended = TRUE],
          threw |-> FALSE]

\* Object.assign({}, headers, { [key]: value }): the value of a key the
\* object has is replaced where it stands, a new key comes last
ObjectAssign(headers, key, value) ==
    IF \E i \in 1..Len(headers) : headers[i].k = key
    THEN [i \in 1..Len(headers) |->
            IF headers[i].k = key THEN [k |-> key, v |-> value] ELSE headers[i]]
    ELSE Append(headers, [k |-> key, v |-> value])

StatusKeys == {"status", "status code"}

\* the key on which the .some of writeHeaders stops, 0 if there is none
StatusKeyIndex(headers) ==
    IF \E i \in 1..Len(headers) : headers[i].k \in StatusKeys
    THEN CHOOSE i \in 1..Len(headers) :
            /\ headers[i].k \in StatusKeys
            /\ \A j \in 1..(i - 1) : headers[j].k \notin StatusKeys
    ELSE 0

\* the forEach of writeHeaders; undefined.toString() throws
RECURSIVE WriteEachHeader(_, _)
WriteEachHeader(res, headers) ==
    IF Len(headers) = 0 THEN [res |-> res, threw |-> FALSE]
    ELSE IF Head(headers).v = UndefinedValue THEN [res |-> res, threw |-> TRUE]
    ELSE LET r == UwsWriteHeader(res, Head(headers))
         IN  IF r.threw THEN r ELSE WriteEachHeader(r.res, Tail(headers))

\* writeHeaders(uwsResponse, headers)
WriteHeaders(res, headers) ==
    LET i == StatusKeyIndex(headers)
        rest == IF i = 0 THEN headers
                ELSE SubSeq(headers, 1, i - 1) \o SubSeq(headers, i + 1, Len(headers))
    IN  IF i = 0 THEN WriteEachHeader(res, rest)
        ELSE IF headers[i].v = UndefinedValue THEN [res |-> res, threw |-> TRUE]
        ELSE LET r == UwsWriteStatus(res, headers[i].v)
             IN  IF r.threw THEN r ELSE WriteEachHeader(r.res, rest)

\* #buildErrorResponse(error)
BuildErrorResponse(code) ==
    [headers |->
        IF code \in {"ECONNRESET", "ECONNABORTED", "ECONNREFUSED", "EBODYSTREAM"}
        THEN <<[k |-> "status", v |-> "503 Service Unavailable"]>>
        ELSE IF code = "ETIMEDOUT"
        THEN <<[k |-> "status", v |-> "504 Gateway Timeout"]>>
        ELSE IF code = "ERECIPIENTABORTED"
        THEN <<[k |-> "status", v |-> "502 Bad Gateway"]>>
        ELSE <<[k |-> "status code", v |-> "502 Bad Gateway"]>>,
     body |-> [kind |-> "default", code |-> code],
     status |-> UndefinedValue]

\* a response an error hook builds itself
HookResponse(code) ==
    [headers |-> <<>>, body |-> [kind |-> "hook", code |-> code],
     status |-> "500 Internal Server Error"]

\* #tryToSendErrorResponse: both try blocks swallow what is thrown
TryToSendErrorResponse(res, errorResponse) ==
    LET written == WriteHeaders(res, ObjectAssign(errorResponse.headers,
                                                  "status", errorResponse.status))
    IN  UwsEnd(written.res, errorResponse.body).res

\* #tryToRespondToError with #tryToUseErrorHandlerResponse: the hook is
\* called outside any try block
TryToRespondToError(p, code, outcome) ==
    LET q == [p EXCEPT !.errors = Append(@, code),
                       !.phase = IF @ \in {"forwarding", "streaming"} THEN "failed" ELSE @]
    IN  IF ~p.hasHook
        THEN [q EXCEPT !.uwsResponse = TryToSendErrorResponse(@, BuildErrorResponse(code))]
        ELSE IF outcome = "throws"
        THEN [q EXCEPT !.hook = outcome, !.uncaught = TRUE]
        ELSE IF outcome \in {"rejects", "resolves_nothing", "resolves_response"}
        THEN [q EXCEPT !.hook = outcome, !.pending = [kind |-> outcome, code |-> code]]
        ELSE [q EXCEPT !.hook = outcome,
                       !.uwsResponse = TryToSendErrorResponse(@,
                            IF outcome = "returns_response" THEN HookResponse(code)
                            ELSE BuildErrorResponse(code))]

\* the proxy runs its handlers one at a time, the reactions of a promise
\* before any other event, and not at all after an uncaught exception
ProxyReady == proxy.pending.kind = "none" /\ ~proxy.uncaught

\* #handleRequest with #forwardRequest: http.request gets the headers
ProxyHandleRequest ==
    /\ proxy.phase = "received"
    /\ proxy' = [proxy EXCEPT !.phase = "forwarding",
                              !.forwarded = ForwardedHeaders(proxy.ssl,
                                                DecodeRequest(proxy.incoming))]
    /\ UNCHANGED notProxyVars

\* time passes while the forwarded request waits for the response head
ProxyTick ==
    /\ ProxyReady
    /\ proxy.phase = "forwarding"
    /\ proxy.elapsed < MaxTicks
    /\ proxy' = [proxy EXCEPT !.elapsed = @ + 1]
    /\ UNCHANGED notProxyVars

\* the callback of http.request: the response head of the backend
ProxyResponseHead(statusCode) ==
    /\ ProxyReady
    /\ proxy.phase = "forwarding"
    /\ LET r == UwsWriteStatus(proxy.uwsResponse, statusCode)
           w == IF r.threw THEN r
                ELSE WriteHeaders(r.res, <<[k |-> "content-type", v |-> "text/plain"]>>)
       IN  proxy' = [proxy EXCEPT !.phase = "streaming", !.headReceived = TRUE,
                                  !.uwsResponse = w.res]
    /\ UNCHANGED notProxyVars

\* streamToUWSResponse, 'close' of the response of the backend
ProxyResponseClose ==
    /\ ProxyReady
    /\ proxy.phase = "streaming"
    /\ proxy' = [proxy EXCEPT !.phase = "done",
                              !.uwsResponse = UwsEnd(@, [kind |-> "backend", code |-> ""]).res]
    /\ UNCHANGED notProxyVars

\* 'error' of the forwarded request or of the response of the backend
ProxyError(code, outcome) ==
    /\ ProxyReady
    /\ proxy.phase \in {"forwarding", "streaming"}
    /\ proxy' = TryToRespondToError(proxy, code, outcome)
    /\ UNCHANGED notProxyVars

\* 'timeout' of the forwarded request: emitted when the platform has set a
\* timeout on the socket, at the time the platform chose
ProxyTimeoutEvent(outcome) ==
    /\ ProxyReady
    /\ proxy.phase = "forwarding"
    /\ proxy' = TryToRespondToError(proxy, "ETIMEDOUT", outcome)
    /\ UNCHANGED notProxyVars

\* uwsResponse.onAborted: the body stream is destroyed with an error and
\* the AbortController aborts, which runs the 'abort' listener at once
ProxyClientAbort(outcome) ==
    /\ ProxyReady
    /\ proxy.phase \in {"forwarding", "streaming"}
    /\ proxy' = TryToRespondToError(
                    [proxy EXCEPT !.phase = "aborted", !.bodyStreamError = TRUE,
                                  !.uwsResponse.aborted = TRUE],
                    "ERECIPIENTABORTED", outcome)
    /\ UNCHANGED notProxyVars

\* 'error' of the destroyed UWSBodyStream
ProxyBodyStreamError(outcome) ==
    /\ ProxyReady
    /\ proxy.bodyStreamError
    /\ proxy' = TryToRespondToError([proxy EXCEPT !.bodyStreamError = FALSE],
                                    "EBODYSTREAM", outcome)
    /\ UNCHANGED notProxyVars

\* the then / catch reactions on the promise the hook returned
ProxyHookSettle ==
    /\ proxy.pending.kind # "none"
    /\ LET code == proxy.pending.code
           kind == proxy.pending.kind
       IN  proxy' = [proxy EXCEPT
                !.pending = NoPromise,
                !.logged = IF kind = "rejects" THEN @ + 1 ELSE @,
                !.uwsResponse = TryToSendErrorResponse(@,
                    IF kind = "resolves_response" THEN HookResponse(code)
                    ELSE BuildErrorResponse(code))]
    /\ UNCHANGED notProxyVars

ProxyNext ==
    \/ ProxyHandleRequest
    \/ ProxyTick
    \/ \E statusCode \in {"200", "404"} : ProxyResponseHead(statusCode)
    \/ ProxyResponseClose
    \/ \E code \in ErrorCodes, outcome \in HookOutcomes : ProxyError(code, outcome)
    \/ \E outcome \in HookOutcomes : ProxyTimeoutEvent(outcome)
    \/ \E outcome \in HookOutcomes : ProxyClientAbort(outcome)
    \/ \E outcome \in HookOutcomes : ProxyBodyStreamError(outcome)
    \/ ProxyHookSettle

vars == <<wire, stream, fed, parser, ref, refFed, sRequest, sBody, sContext, sSocket, sPhase,
          pipe, replies, cbLog, termLog, conn, traffic, client, conns, calls, proxy>>

\* the components a specification does not exercise stay as constructed
ParserIdle ==
    /\ wire = <<>> /\ stream = <<>> /\ fed = 0 /\ parser = NewParser
    /\ ref = NewParser
    /\ refFed = 0
SenderIdle ==
    /\ sRequest = [contentLength |-> Undefined, transferEncoding |-> "none"]
    /\ sBody = [chunks |-> <<>>, delivered |-> 0, aborted |-> FALSE,
                tooBusy |-> 0, ended |-> FALSE]
    /\ sContext = NoContext
    /\ sSocket = [out |-> <<>>, needDrain |-> FALSE, drainListeners |-> <<>>]
    /\ sPhase = "scheduled"

PipeIdle == PipeInit
ClientIdle == ClientInit

InitParser == ParserInit /\ SenderIdle /\ PipeIdle /\ ClientIdle /\ ProxyIdle
InitSender == SenderInit /\ ParserIdle /\ PipeIdle /\ ClientIdle /\ ProxyIdle
InitPipe == PipeInit /\ ParserIdle /\ SenderIdle /\ ClientIdle /\ ProxyIdle
InitClient == ClientInit /\ ParserIdle /\ SenderIdle /\ PipeIdle /\ ProxyIdle
InitSlices == SlicesInit /\ SenderIdle /\ PipeIdle /\ ClientIdle /\ ProxyIdle
InitKeys == KeysInit /\ ParserIdle /\ SenderIdle /\ PipeIdle /\ ProxyIdle
InitProxy == ProxyInit /\ ParserIdle /\ SenderIdle /\ PipeIdle /\ ClientIdle

SpecParser == InitParser /\ [][ParserNext]_vars
SpecSender == InitSender /\ [][SenderNext]_vars
SpecPipe == InitPipe /\ [][PipeNext]_vars
InitDuplex == DuplexInit /\ ParserIdle /\ SenderIdle /\ ClientIdle /\ ProxyIdle
SpecDuplex == InitDuplex /\ [][PipeNext]_vars

SpecClient == InitClient /\ [][ClientNext]_vars
SpecSlices == InitSlices /\ [][SlicesNext]_vars
SpecKeys == InitKeys /\ [][ClientNext]_vars
SpecProxy == InitProxy /\ [][ProxyNext]_vars

\* C6: the FIFO of chunks stacked during socket backpressure never holds
\* more than maxStackedBuffers chunks, and once the bound was hit (the 504
\* was due) no later chunk of the request is accepted.
C6_StackBounded ==
    sContext.subscribed => Len(sContext.stackedBuffers) <= MaxStackedBuffers

(***************************************************************************)
(* Observers of the pipeline                                               *)
(***************************************************************************)
\* the position of request r among the requests scheduleSend queued; the
\* response with that number is the answer to r
AcceptedIndex(r) ==
    IF \E i \in 1..Len(traffic.accepted) : traffic.accepted[i] = r
    THEN CHOOSE i \in 1..Len(traffic.accepted) : traffic.accepted[i] = r
    ELSE 0

IsPrefix(a, b) == Len(a) <= Len(b) /\ SubSeq(b, 1, Len(a)) = a

Queued(r) == \E i \in 1..Len(pipe.pendingRequests) : pipe.pendingRequests[i].request = r

\* request r was removed from the queue by the end of a response
Answered(r) == \E i \in 1..Len(termLog) : termLog[i].request = r /\ termLog[i].cause # CauseClose

\* C1: the i-th termination by a parser event is caused by the end of the
\* i-th response and removes the i-th request that scheduleSend accepted.
C1_FifoTermination ==
    \A i \in 1..Len(termLog) :
        termLog[i].cause # CauseClose =>
            /\ termLog[i].cause = i
            /\ termLog[i].request = traffic.accepted[i]

\* C2: the status line and the headers of the k-th response are written to
\* the reply-handle of the k-th scheduled request only.
C2_HeadersToOwnRequest ==
    \A r \in Requests :
        /\ \A j \in 1..Len(replies[r].statusLog) : replies[r].statusLog[j] = AcceptedIndex(r)
        /\ \A j \in 1..Len(replies[r].headerLog) : replies[r].headerLog[j] = AcceptedIndex(r)

\* C3: no body chunk is pushed into a reply-handle between a write / tryEnd
\* it did not accept and its next writable signal.
C3_NoPushWhileBlocked ==
    \A r \in Requests : ~replies[r].pushedBlocked

\* C7: the callback of a request is never called twice, and it has been
\* called once the request is done: refused by Connection.send or by
\* scheduleSend, answered, or removed by a close of the pipeline.
C7_CallbackExactlyOnce ==
    \A r \in Requests :
        /\ Len(cbLog[r]) <= 1
        /\ (r <= traffic.sent /\ ~Queued(r)) => Len(cbLog[r]) = 1

C9_PeersUnaffected ==
    (\E a \in Requests : replies[a].gone /\ AcceptedIndex(a) # 0) =>
        \A r \in Requests :
            (AcceptedIndex(r) # 0 /\ ~replies[r].gone) =>
                /\ \A j \in 1..Len(replies[r].statusLog) : replies[r].statusLog[j] = AcceptedIndex(r)
                /\ \A j \in 1..Len(replies[r].headerLog) : replies[r].headerLog[j] = AcceptedIndex(r)
                /\ AcceptedIndex(r) <= Len(traffic.kinds) =>
                      /\ IsPrefix(replies[r].bytes,
                                  BodyOfKind(AcceptedIndex(r), traffic.kinds[AcceptedIndex(r)]))
                      /\ Answered(r) =>
                            replies[r].bytes =
                                BodyOfKind(AcceptedIndex(r), traffic.kinds[AcceptedIndex(r)])
                /\ AcceptedIndex(r) > Len(traffic.kinds) => replies[r].bytes = <<>>

\* C5: for every host:port key, the pending connections plus the ready
\* connections are at most maxConnectionsByHost.
C5_PoolBounded ==
    \A k \in HostKeys :
        Len(client.pending[k]) + Len(client.ready[k]) <= MaxConnectionsByHost

\* a key at the cap, with a pending and a ready connection, for which a
\* request was made at the cap
C5_Witness ==
    \E k \in HostKeys :
        /\ Len(client.pending[k]) >= 1
        /\ Len(client.ready[k]) >= 1
        /\ Len(client.pending[k]) + Len(client.ready[k]) = MaxConnectionsByHost
        /\ \E i \in 1..Len(calls) : calls[i].key = k /\ calls[i].atCap

\* C10: a request made while its key is at the cap and none of the ready
\* connections is available fails with MAX_CONNECTIONS: no connection is
\* created and none is picked for it.
C10_MaxConnectionsError ==
    \A i \in 1..Len(calls) :
        (calls[i].atCap /\ calls[i].noneAvailable) =>
            /\ calls[i].outcome = "E_MAX_CONNECTIONS"
            /\ calls[i].conn = 0
            /\ ~calls[i].created

\* C11: the connection watcher never closes a connection whose pipeline
\* holds a request.
C11_WatcherSparesInFlight ==
    \A id \in ConnIds : ~conns[id].inFlightKill

\* a step in which the connection emits 'closed': _changeState(CLOSED) in
\* the ECONNREFUSED branch, or in the 'close' listener, which drops the socket
EmitsClosed ==
    /\ conn'.state = "closed"
    /\ conn.state # "closed" \/ (conn.socket /\ ~conn'.socket)

StateOrder ==
    {<<"connecting", "connected">>, <<"connected", "closed">>,
     <<"connecting", "closed">>}

\* C12: a connection changes state only in the order connecting, connected,
\* closed; once closed it never changes state again, does not emit 'closed'
\* a second time and opens no new socket.
C12_ClosedIsTerminal ==
    [][/\ conn'.state # conn.state => <<conn.state, conn'.state>> \in StateOrder
       /\ conn.state = "closed" =>
            /\ conn'.state = "closed"
            /\ ~EmitsClosed
            /\ conn.socket \/ ~conn'.socket]_vars

\* a step in which the socket of a connecting connection emits 'error'
\* ECONNREFUSED
Refused == conn.state = "connecting" /\ ~conn.failed /\ conn'.failed

RefusedErrors == SelectSeq(conn.errors, LAMBDA e : e = "ECONNREFUSED")

\* C13: a refused attempt is reopened without an 'error' event while fewer
\* than maxReopenAttempts reopenings were made; once maxReopenAttempts
\* reopenings were refused the error is emitted, once, no reopening is
\* scheduled and no socket is opened again; the reopenings in a row never
\* exceed maxReopenAttempts.
C13_RefusedRetries ==
    /\ [](/\ conn.reopenAttempts <= ConnMaxReopenAttempts
          /\ Len(RefusedErrors) <= 1
          /\ RefusedErrors # <<>> => ~conn.reopenTimer)
    /\ [][/\ Refused /\ conn.reopenAttempts < ConnMaxReopenAttempts =>
               /\ conn'.errors = conn.errors
               /\ conn'.reopenTimer
               /\ conn'.reopenAttempts = conn.reopenAttempts + 1
          /\ Refused /\ conn.reopenAttempts >= ConnMaxReopenAttempts =>
               /\ conn'.errors = Append(conn.errors, "ECONNREFUSED")
               /\ ~conn'.reopenTimer
               /\ conn'.reopenAttempts = conn.reopenAttempts
          /\ RefusedErrors # <<>> => (conn.socket \/ ~conn'.socket)]_vars

\* the last reopening allowed was refused and the error emitted
C13_Witness ==
    /\ conn.errors = <<"ECONNREFUSED">>
    /\ conn.reopenAttempts = ConnMaxReopenAttempts
    /\ ~conn.socket

\* the parser has announced the body read mode UNTIL_CLOSE of response k:
\* the event was emitted and the listener of the pipeline has run
UntilCloseAnnounced(k) ==
    /\ k <= Len(traffic.kinds)
    /\ traffic.kinds[k] = "UNTIL_CLOSE"
    /\ \A i \in 1..Len(traffic.inbox) :
          ~(traffic.inbox[i].type = "body_read_mode" /\ traffic.inbox[i].resp = k)

\* the socket is connected: no 'error', no end, no 'close'
ConnectionOpen ==
    conn.state = "connected" /\ conn.socket /\ ~conn.failed /\ ~conn.ending

\* C14: once UNTIL_CLOSE is announced for a response, and as long as the
\* connection is open, the pipeline is locked and accepts no request, and
\* the request of that response is still queued.
C14_LockedUntilClose ==
    \A k \in 1..MaxPipeResponses :
        (UntilCloseAnnounced(k) /\ ConnectionOpen) =>
            /\ pipe.lock
            /\ ~AcceptsMoreRequests(pipe)
            /\ \E i \in 1..Len(pipe.pendingRequests) :
                  pipe.pendingRequests[i].request = traffic.onWire[k]

\* a step in which Connection.send passes a request to scheduleSend while
\* the queue is full
SendOnFullQueue ==
    /\ traffic'.sent = traffic.sent + 1
    /\ conn.state = "connected"
    /\ Len(pipe.pendingRequests) >= PipelineMaxRequests

Overflowed(r) ==
    \E i \in 1..Len(cbLog[r]) : cbLog[r][i] = "E_PIPELINE_OVERFLOW"

\* C15: the queue never holds more than maxRequests entries; a request
\* sent on a full queue gets E_PIPELINE_OVERFLOW in its callback, once and
\* as only call, the queue is left as it was, and the head of the request
\* is neither scheduled nor written to the socket.
C15_QueueBounded ==
    /\ [](/\ Len(pipe.pendingRequests) <= PipelineMaxRequests
          /\ \A r \in Requests : Overflowed(r) =>
                /\ cbLog[r] = <<"E_PIPELINE_OVERFLOW">>
                /\ \A i \in 1..Len(traffic.onWire) : traffic.onWire[i] # r
                /\ \A i \in 1..Len(traffic.immediates) : traffic.immediates[i] # r
                /\ \A i \in 1..Len(pipe.pendingRequests) :
                      pipe.pendingRequests[i].request # r)
    /\ [][SendOnFullQueue =>
            /\ pipe'.pendingRequests = pipe.pendingRequests
            /\ cbLog'[traffic'.sent] = <<"E_PIPELINE_OVERFLOW">>]_vars

\* a request was refused by a full queue
C15_Witness ==
    /\ Len(pipe.pendingRequests) = PipelineMaxRequests
    /\ \E r \in Requests : Overflowed(r)

\* the events as a listener sees them once it has put the body chunks
\* together: consecutive body_chunk events up to a last one are one event
RECURSIVE Coalesce(_)
Coalesce(out) ==
    IF Len(out) = 0 THEN <<>>
    ELSE IF /\ Len(out) >= 2
            /\ out[1].type = "body_chunk" /\ ~out[1].isLast
            /\ out[2].type = "body_chunk"
    THEN Coalesce(<<EvtBodyChunk(out[1].data \o out[2].data, out[2].isLast)>>
                  \o SubSeq(out, 3, Len(out)))
    ELSE <<Head(out)>> \o Coalesce(Tail(out))

\* C20: whatever the slicing of the bytes, the parser has emitted the same
\* events as a parser fed the same bytes one by one: same kinds, same
\* payloads, same order, the body chunks of a response taken together.
C20_SlicingInvariant ==
    refFed = fed => Coalesce(parser.out) = Coalesce(ref.out)

\* the code of the error the parser owes the last response of the wire
ExpectedError ==
    CASE wire[Len(wire)].mode = "INVALID_CONTENT_LENGTH" -> "E_INVALID_CONTENT_LENGTH"
      [] wire[Len(wire)].mode \in {"INVALID_CHUNK_SIZE", "NO_CHUNK_SIZE"} -> "E_INVALID_CHUNK_SIZE"
      [] OTHER -> ""

\* the bytes are fed up to the line feed that ends the header block of the
\* last response (a content-length is parsed there) or the line of its
\* chunk size
OffendingLineFed ==
    LET before == Len(Flatten([k \in 1..(Len(wire) - 1) |-> EncodeSliced(wire[k])]))
        head == IF wire[Len(wire)].mode = "INVALID_CONTENT_LENGTH"
                THEN Len(STATUS_LINE_200 \o LINE_CONTENT_LENGTH \o STR_NOT_A_NUMBER \o CRLF \o CRLF)
                ELSE IF wire[Len(wire)].mode = "INVALID_CHUNK_SIZE"
                THEN Len(STATUS_LINE_200 \o LINE_TRANSFER_CHUNKED \o CRLF \o STR_NOT_A_NUMBER \o CRLF)
                ELSE Len(STATUS_LINE_200 \o LINE_TRANSFER_CHUNKED \o CRLF \o CRLF)
    IN  fed >= before + head

C17_NoDispatchAfterParserError ==
    \A i \in 1..Len(calls) : ~(calls[i].afterError /\ calls[i].outcome = "sent")


\* Client.close() without arguments was called: it alone stops the watcher
ClosedAll == client.closed /\ ~client.watcher

\* C18: after Client.close() without arguments no connection of the pool
\* is opened or becomes Connected (the connections, ready or still
\* connecting, only go to Closed), the watcher stays stopped, and every
\* later call of request() fails synchronously with the closed-client error.
C18_CloseAllIsFinal ==
    [][ClosedAll =>
          /\ ClosedAll'
          /\ \A id \in ConnIds :
                /\ conns'[id].state = "connected" => conns[id].state = "connected"
                /\ conns'[id].state = "connecting" => conns[id].state = "connecting"
          /\ client'.requests > client.requests =>
                calls'[Len(calls')].outcome = "E_CLIENT_CLOSED"]_vars


\* C19: Client.close(host, port) closes only the connections of that key:
\* the call leaves the connections and the arrays of every other key as
\* they are, and a later request to another key is still accepted (it is
\* not refused with the closed-client error).
C19_CloseKeyOnlyThatKey ==
    [][/\ (client.closedKey = "" /\ client'.closedKey # "") =>
            /\ \A id \in ConnIds :
                  conns[id].key # client'.closedKey => conns'[id] = conns[id]
            /\ \A k \in HostKeys \ {client'.closedKey} :
                  /\ client'.ready[k] = client.ready[k]
                  /\ client'.pending[k] = client.pending[k]
       /\ (/\ client.closedKey # ""
           /\ client'.requests > client.requests
           /\ calls'[Len(calls')].key # client.closedKey) =>
               calls'[Len(calls')].outcome # "E_CLIENT_CLOSED"]_vars


\* the events of out follow, response after response, the order first,
\* second, then body_chunk events up to one with is_last; phase is the
\* number of events of the current response's head already seen
RECURSIVE InOrder(_, _, _, _)
InOrder(out, first, second, phase) ==
    IF Len(out) = 0 THEN TRUE
    ELSE LET e == Head(out)
         IN  CASE phase = 0 -> e.type = first /\ InOrder(Tail(out), first, second, 1)
               [] phase = 1 -> e.type = second /\ InOrder(Tail(out), first, second, 2)
               [] OTHER -> /\ e.type = "body_chunk"
                           /\ InOrder(Tail(out), first, second, IF e.isLast THEN 0 ELSE 2)

C26_DoneTerminatesHead ==
    \A r \in Requests :
        (replies[r].ended /\ replies[r].endCalls = 0) => ~Queued(r)


\* C27: a call of request() is dispatched to an existing Connection only
\* if isAvailable() holds for it at the moment it is selected (Connected,
\* pipeline neither full nor locked); it is never handed to a connection
\* that is still connecting, has failed, is full or is locked.
C27_DispatchOnlyToAvailable ==
    [][(/\ client'.requests > client.requests
        /\ calls'[Len(calls')].conn # 0
        /\ ~calls'[Len(calls')].created) =>
            PoolIsAvailable(conns[calls'[Len(calls')].conn])]_vars


\* the body chunks handed to socket.write, in the order of the calls
IsBodyChunk(d) == d.kind = "chunk"

BodyWrites == SelectSeq(sSocket.out, IsBodyChunk)

\* C28: the chunks of a request body are written to the backend socket once
\* each and in the order they were received (the i-th chunk written is the
\* i-th chunk delivered), and a drain flushes every stacked chunk: outside
\* backpressure the FIFO is empty, so no later chunk overtakes a stacked one.
\* Stated for the requests whose FIFO stayed under maxStackedBuffers.
C28_ChunksOnceInOrder ==
    (sContext.subscribed /\ sBody.tooBusy = 0) =>
        /\ \A i \in 1..Len(BodyWrites) : BodyWrites[i].id = i
        /\ ~sContext.backpressure => sContext.stackedBuffers = <<>>

\* the request announces a body: a content-length above 0, or chunked
\* without a content-length
SenderHasBody ==
    IF sRequest.contentLength # Undefined
    THEN sRequest.contentLength > 0
    ELSE sRequest.transferEncoding = "chunked"

\* C29: once the head of a request is on the socket and _stream ran, the
\* Sender is subscribed to the body source exactly when the request has a
\* body (content-length or chunked); only a bodiless request is left with
\* its head alone.
C29_BodyIsStreamed ==
    sPhase \notin {"scheduled", "head_backpressure"} =>
        (sContext.subscribed <=> SenderHasBody)

\* the body bytes handed to socket.write: chunks of the body and zeros
RECURSIVE BodyBytesOut(_)
BodyBytesOut(out) ==
    IF Len(out) = 0 THEN 0
    ELSE (IF Head(out).kind \in {"chunk", "zeros"} THEN Head(out).len ELSE 0)
         + BodyBytesOut(Tail(out))

\* C30: after the client aborted a request with content-length N whose
\* body was being streamed, the body bytes handed to the socket, padding
\* included, are N exactly, and the padding is the last of them.
C30_PaddedToLength ==
    (sBody.aborted /\ sRequest.contentLength # Undefined) =>
        /\ BodyBytesOut(sSocket.out) = sRequest.contentLength
        /\ sSocket.out[Len(sSocket.out)].kind = "zeros"

(***************************************************************************)
(* Observers of the proxy                                                  *)
(***************************************************************************)
\* the status line the client was sent
SentStatus == proxy.uwsResponse.status[1]

\* the edge answered the request with the default error response
DefaultErrorSent ==
    proxy.uwsResponse.ended /\ proxy.uwsResponse.body.kind = "default"

\* C22: a forwarded request whose response head has not come within the
\* configured timeout, and which met no other failure, has failed with the
\* timed-out error and its client has been sent a 504: no request is still
\* waiting after the timeout.
C22_TimeoutEnforced ==
    (/\ proxy.elapsed > ProxyTimeout
     /\ ~proxy.headReceived
     /\ ~proxy.uwsResponse.aborted
     /\ proxy.pending.kind = "none"
     /\ \A i \in 1..Len(proxy.errors) : proxy.errors[i] = "ETIMEDOUT") =>
        /\ proxy.errors = <<"ETIMEDOUT">>
        /\ proxy.uwsResponse.ended
        /\ (DefaultErrorSent => SentStatus = "504 Gateway Timeout")

\* the status the default error response has for an error code
DefaultStatus(code) ==
    IF code \in {"ECONNRESET", "ECONNABORTED", "ECONNREFUSED"}
    THEN "503 Service Unavailable"
    ELSE IF code = "ETIMEDOUT" THEN "504 Gateway Timeout"
    ELSE "502 Bad Gateway"

\* C23: the default error response written to a reply-handle nothing was
\* written to has the status 503 for ECONNRESET, ECONNABORTED and
\* ECONNREFUSED, 504 for a timeout, and 502 for a backend abort and for any
\* other error.
C23_DefaultErrorStatus ==
    (DefaultErrorSent /\ ~proxy.headReceived) =>
        SentStatus = DefaultStatus(proxy.uwsResponse.body.code)

\* C24: when the error hook threw or returned a promise that rejected, the
\* failure is contained and logged, and the client, if it is still there,
\* has been sent the default error response.
C24_HookFailureContained ==
    (/\ proxy.hook \in {"throws", "rejects"}
     /\ proxy.pending.kind = "none"
     /\ ~proxy.uwsResponse.aborted) =>
        /\ ~proxy.uncaught
        /\ proxy.logged >= 1
        /\ DefaultErrorSent

\* the value the proxy has to send in x-forwarded-<h>: what came in, a
\* comma and the proxy's own value, or its own value alone
Forwarded(h, own) ==
    IF proxy.incoming[h] # Absent THEN proxy.incoming[h] \o <<",">> \o own ELSE own

\* C25: the forwarded request carries in x-forwarded-for, -port and -proto
\* the incoming value extended by the address of the directly connected
\* peer, the public port and http or https, and in x-forwarded-host the
\* incoming x-forwarded-host or else the host header.
C25_ForwardedHeaders ==
    proxy.phase # "received" =>
        /\ proxy.forwarded["x-forwarded-for"] = Forwarded("x-forwarded-for", PeerAddress)
        /\ proxy.forwarded["x-forwarded-port"] = Forwarded("x-forwarded-port", PublicPort)
        /\ proxy.forwarded["x-forwarded-proto"] =
                Forwarded("x-forwarded-proto", IF proxy.ssl THEN <<"https">> ELSE <<"http">>)
        /\ proxy.forwarded["x-forwarded-host"] =
                (IF proxy.incoming["x-forwarded-host"] # Absent
                 THEN proxy.incoming["x-forwarded-host"] ELSE proxy.incoming["host"])

(***************************************************************************)
(* What a listener of the parser observes of the heads of the responses.   *)
(***************************************************************************)
IsHeadersEvent(e) == e.type = "headers"

HeadersEvents(out) == SelectSeq(out, IsHeadersEvent)

\* the headers event of a response of SpecParser as it stands on the wire:
\* "HTTP/1.1", 200, "OK" and its one header (the content-length as the
\* number the parser makes of it)
HeadOnWire(resp) ==
    [type |-> "headers",
     headers |-> IF resp.mode = BODY_READ_MODE.FIXED
                 THEN <<[name |-> HEADER_CONTENT_LENGTH, value |-> [n |-> Len(BodyOf(resp))]]>>
                 ELSE <<[name |-> HEADER_TRANSFER_ENCODING, value |-> [s |-> STR_CHUNKED]]>>,
     statusCode |-> 200,
     statusMessage |-> SubSeq(STATUS_LINE_200, 14, 15),
     version |-> SubSeq(STATUS_LINE_200, 1, 8)]

\* C31: the k-th headers event of a pipelined stream carries the version,
\* the status code, the status message and the headers of the k-th response
\* on the wire: parsing of a response starts at the first byte after the
\* response before it.
C31_HeadsPerResponse ==
    \A k \in 1..Len(HeadersEvents(parser.out)) :
        /\ k <= Len(wire)
        /\ HeadersEvents(parser.out)[k] = HeadOnWire(wire[k])

\* the number of bytes of the stream up to the end of the k-th response
RECURSIVE StreamOffset(_)
StreamOffset(k) == IF k = 0 THEN 0 ELSE StreamOffset(k - 1) + Len(Encode(wire[k]))

\* a response of SpecParser without body bytes: content-length: 0
IsZeroBody(resp) == resp.mode = BODY_READ_MODE.FIXED /\ Len(BodyOf(resp)) = 0

\* C32: once the header block of a zero-body response has been fed, the
\* terminator body_chunk(empty, true) of that response has been emitted,
\* whether or not a later byte has arrived; and there is never more than one
\* terminator per response.
C32_ZeroBodyTerminator ==
    /\ Len(Terminators(parser.out)) <= Len(wire)
    /\ \A k \in 1..Len(wire) :
          (IsZeroBody(wire[k]) /\ fed >= StreamOffset(k)) =>
              Len(Terminators(parser.out)) >= k

\* the index of the body_read_mode event that announced UNTIL_CLOSE, 0 if
\* there is none
UntilCloseAt(out) ==
    IF \E i \in 1..Len(out) :
            out[i].type = "body_read_mode" /\ out[i].mode = BODY_READ_MODE.UNTIL_CLOSE
    THEN CHOOSE i \in 1..Len(out) :
            out[i].type = "body_read_mode" /\ out[i].mode = BODY_READ_MODE.UNTIL_CLOSE
    ELSE 0

\* the data of the body_chunk events, end to end
RECURSIVE DataOfChunks(_)
DataOfChunks(events) ==
    IF Len(events) = 0 THEN <<>> ELSE Head(events).data \o DataOfChunks(Tail(events))

\* C33: in UNTIL_CLOSE mode the body chunks emitted are, end to end, the
\* bytes received after the header block, each once and in order, no byte of
\* the header block among them, and none of them has is_last = true.
C33_UntilCloseForwardsBody ==
    LET at == UntilCloseAt(parser.out)
        chunks == BodyChunkEvents(SubSeq(parser.out, at + 1, Len(parser.out)))
        headEnd == Len(stream) - Len(BodyOf(wire[Len(wire)]))
    IN  at # 0 =>
            /\ \A i \in 1..Len(chunks) : ~chunks[i].isLast
            /\ DataOfChunks(chunks) = SubSeq(stream, headEnd + 1, fed)

IsModeEvent(e) == e.type = "body_read_mode"
ModeEvents(out) == SelectSeq(out, IsModeEvent)

\* the body-read mode the headers of a response call for: chunked if its
\* transfer-encoding holds "chunked", else fixed with the content-length if
\* it has one, else until close
AnnouncedMode(resp) ==
    CASE resp.mode \in {BODY_READ_MODE.CHUNKED, "INVALID_CHUNK_SIZE", "NO_CHUNK_SIZE"} ->
           EvtBodyReadMode(BODY_READ_MODE.CHUNKED, Undefined)
      [] resp.mode \in {BODY_READ_MODE.FIXED, "GZIP_WITH_LENGTH", "NO_CONTENT_WITH_LENGTH"} ->
           EvtBodyReadMode(BODY_READ_MODE.FIXED, Len(BodyOf(resp)))
      [] OTHER ->
           EvtBodyReadMode(BODY_READ_MODE.UNTIL_CLOSE, Undefined)

AnnouncedModeIgnoringLength(resp) ==
    IF resp.mode = "GZIP_WITH_LENGTH"
    THEN EvtBodyReadMode(BODY_READ_MODE.UNTIL_CLOSE, Undefined)
    ELSE AnnouncedMode(resp)

C35_NoBodyForNoContent ==
    wire[Len(wire)].mode = "NO_CONTENT_WITH_LENGTH" =>
        \A i \in 1..Len(parser.out) :
            parser.out[i].type = "body_chunk" =>
                \A j \in 1..Len(parser.out[i].data) :
                    \A b \in 1..Len(BodyOf(wire[Len(wire)])) :
                        parser.out[i].data[j] # BodyOf(wire[Len(wire)])[b]

\* C36: a parser error is terminal for the response at hand: after the
\* error event the parser emits no headers, body_read_mode or body_chunk
\* event for it (the erroneous response is the last one on the wire).
C36_ErrorIsTerminal ==
    \A i \in 1..Len(parser.out) :
        parser.out[i].type = "error" =>
            \A j \in (i + 1)..Len(parser.out) :
                parser.out[j].type \notin {"headers", "body_read_mode", "body_chunk"}

\* C37: a connection that failed before it was ever connected (its promise
\* was rejected) is no longer in the pending array of its key, so that it
\* does not count toward maxConnectionsByHost and is handed to no later
\* request.
C37_FailedLeavesPending ==
    \A id \in ConnIds :
        conns[id].promise = "rejected" =>
            IndexOf(client.pending[conns[id].key], id) = 0

\* C38: when the ready array of a key loses a connection on a 'closed'
\* event (and not because close() emptied the map), the connection it loses
\* is one that is closed: a connected connection stays in the array until
\* it closes itself.
C38_OnlyTheClosedOneRemoved ==
    [][client'.closed = client.closed =>
          \A k \in HostKeys :
              \A i \in 1..Len(client.ready[k]) :
                  IndexOf(client'.ready[k], client.ready[k][i]) = 0 =>
                      conns'[client.ready[k][i]].state = "closed"]_vars

\* C39: the response data stream is never left paused with nothing to
\* resume it: while it is paused the pipeline has a head whose reply-handle
\* is alive and blocked with an onWritable handler registered (its writable
\* signal or its abort will resume the stream); once the handle has
\* signalled, has aborted or its entry is terminated the stream flows.
C39_PauseCanEnd ==
    ~pipe.dataStream.flowing =>
        /\ Len(pipe.pendingRequests) > 0
        /\ ~ReplyInvalid(replies[pipe.pendingRequests[1].request])
        /\ replies[pipe.pendingRequests[1].request].blocked
        /\ replies[pipe.pendingRequests[1].request].onWritable.kind # "none"

\* C40: a reply-handle is ended at most once, and by a single writer: when
\* Pipeline.close calls the callback of a request with the error and ends
\* its reply-handle, the delivery of the backend response has written
\* nothing to that handle.
C40_SingleWriter ==
    [][\A r \in Requests :
          /\ replies'[r].endCalls <= 1
          /\ (/\ Len(cbLog'[r]) > Len(cbLog[r])
              /\ replies'[r].endCalls > replies[r].endCalls)
             => (/\ replies[r].statusLog = <<>>
                 /\ replies[r].headerLog = <<>>
                 /\ replies[r].bytes = <<>>)]_vars

====
